---- MODULE Spec2Model ----
(***************************************************************************)
(* Model of the budgeting backend's two cores:                             *)
(*   - the notification hub (package notifications, Hub), modelled at the  *)
(*     granularity of its lock operations and channel sends, and           *)
(*   - the ledger store (package repository), modelled one transaction     *)
(*     per action.                                                         *)
(***************************************************************************)
EXTENDS Integers, Sequences, FiniteSets, TLC

\* ------------------------------------------------------------------ bounds
MaxChans == 2      \* Subscribe calls in one behaviour (beyond the preloaded one)
MaxEvents == 2     \* Publish calls in one behaviour (beyond the preloaded ones)
MaxUnsubCalls == 2 \* calls of unsubscribe closures in one behaviour
MaxRecv == 1       \* events the consumers take in one behaviour
MaxCalls == 3      \* hub calls (of any kind) started in one behaviour
MaxPlans == 2      \* plans created in one behaviour
MaxCats == 2       \* categories created in one behaviour
MaxItems == 3      \* items created in one behaviour
MaxNotes == 2      \* notes created in one behaviour
MaxRows == 4       \* plans, items and notes created in one behaviour
MaxListLen == 3    \* length of the id list of a Reorder call
MaxTx == 2         \* calls begun on the connections Txs in one behaviour

\* ------------------------------------------------------- program constants
Capacity == 10     \* make(chan Event, 10)
Int64Max == 15     \* the largest int64, in units of 2^59 cents
Int64Span == 32    \* 2^64, in units of 2^59 cents
DefaultCategories == 6   \* len(defaultCategories)

\* inputs of the store calls (amounts in units, see Wrap64): a ceiling of 10,
\* amounts that fit it singly or in pairs, and the largest int64 amount
Ceiling == Int64Max - 5
Amounts == {4, 5, 6, Int64Max}
SmallAmounts == {1}

Users == {"A", "B"}
Txs == {1, 2}
Procs == {"p1", "p2"}
Chans == 1..(MaxChans + 1)
NoProc == "none"
NoUser == "nobody"

VARIABLES
    \* ---- Hub
    subscribers,   \* h.subscribers: map user -> set of channels (a key may be absent)
    mu,            \* h.mu: [w |-> writer or NoProc, r |-> set of readers]
    chState,       \* per channel: "unmade" | "open" | "closed"
    chUser,        \* userID captured by the channel's unsubscribe closure
    delivered,     \* per channel: every event ever enqueued, in order
    nrecv,         \* per channel: how many of them the consumer has taken
    returned,      \* channels whose Subscribe has returned (closure in caller's hands)
    unsubCalls,    \* per channel: calls of its unsubscribe closure so far
    unsubDone,     \* channels one of whose unsubscribe calls returned normally
    pc,            \* per goroutine: position in the hub call it executes
    pUser,         \* per goroutine: userID argument
    pChan,         \* per goroutine: ch of Subscribe / of the closure
    pEvent,        \* per goroutine: id of the event being published (0 = none)
    pTodo,         \* per goroutine: channels of the range loop not yet visited
    pSeen,         \* per goroutine: channel -> buffer length observed at its send
    calls,         \* hub calls started so far
    nextEvent,     \* id of the last event stamped
    firstEvent,    \* id of the last event preloaded by the initial state
    firstChan,     \* the last channel preloaded by the initial state (0 = none)
    evUser,        \* event id -> user it was published to
    evProc,        \* event id -> goroutine that published it
    fanned,        \* events whose Publish has read the registry
    prior,         \* per channel: events already fanned out when it was registered
    \* ---- Ledger store (the committed rows of the database)
    plans,         \* budget_plans: id -> [owner, ceiling]
    cats,          \* expense_categories: id -> [plan, pos]
    items,         \* expense_items: id -> [cat, amount, done, pos]
    notes,         \* notes: id -> [plan, pos]
    nPlans,        \* ids handed out so far, per table (an id is never reused)
    nCats,
    nItems,
    nNotes,
    lastOp,        \* the store call that ran last and what it returned (see Outcome)
    \* ---- Store calls running at the same time
    txs,           \* connection -> the call running on it (see IdleTx)
    nTx,           \* calls begun so far
    \* ---- SSE connections and the kinds of the notes
    conns,         \* Stream request -> its position, user, channel and output
    noteInfo,      \* note id -> [type, by]: note_type and the call that made it
    aiGenerated,   \* plan id -> is_ai_generated, for the plans GeneratePlan makes
    \* ---- Calls outside the hub and the ledger
    copyCall,      \* a buildCopyTitle call: its arguments and its result
    updateReq,     \* the last item Update: its amount, and the amount and total it met
    lastEvent,     \* plan id -> spent and remaining of the last budget_updated event
    overlap,       \* pairs of events whose Publish calls ran at the same time
    tokens,        \* refresh_tokens: id -> [revoked, replacedBy]
    refreshes,     \* Refresh request -> its position, the token presented and the new one
    dbOpen         \* the database.Open call: position, attempt, pools and the context (<<>> = not called)

hubVars == <<subscribers, mu, chState, chUser, delivered, nrecv, returned,
             unsubCalls, unsubDone, pc, pUser, pChan, pEvent, pTodo, pSeen,
             calls, nextEvent, firstEvent, firstChan, evUser, evProc, fanned, prior>>

ledgerVars == <<plans, cats, items, notes, nPlans, nCats, nItems, nNotes, lastOp>>

txVars == <<txs, nTx>>

otherVars == <<copyCall, updateReq, lastEvent, overlap, tokens, refreshes, dbOpen>>

extraVars == <<conns, noteInfo, aiGenerated, otherVars>>

vars == <<hubVars, ledgerVars, txVars, extraVars>>

\* ------------------------------------------------------------- map helpers
MapPut(m, k, v) == [x \in (DOMAIN m) \cup {k} |-> IF x = k THEN v ELSE m[x]]

MapDelete(m, k) == [x \in (DOMAIN m) \ {k} |-> m[x]]

Range(s) == {s[i] : i \in DOMAIN s}

RECURSIVE SumOver(_, _)
\* the sum of f[x] over the finite set S
SumOver(f, S) ==
    IF S = {} THEN 0
    ELSE LET x == CHOOSE y \in S : TRUE IN f[x] + SumOver(f, S \ {x})

\* the events still buffered in a channel
Buf(ch) == SubSeq(delivered[ch], nrecv[ch] + 1, Len(delivered[ch]))

\* ------------------------------------------------------------ sync.RWMutex
\* Lock() succeeds when nobody holds the mutex, RLock() when no writer does.
\* (sync.RWMutex also makes a pending writer hold back new readers; that only
\* removes schedules, so every schedule of the real mutex is one of these.)

\* a writer that does not wait for the Publish calls inside the registry
CanLockDespiteReaders == mu.w = NoProc

\* h.mu.Lock()
CanLock == mu.w = NoProc /\ mu.r = {}

\* h.mu.RLock()

CanRLock == mu.w = NoProc

\* ------------------------------------------------------------ Hub.Subscribe
\* userSubs, ok := h.subscribers[userID]; if !ok {...}; userSubs[ch] = struct{}{}
RegisterSub(subs, u, ch) ==
    LET userSubs == IF u \in DOMAIN subs THEN subs[u] ELSE {}
    IN MapPut(subs, u, userSubs \cup {ch})

\* a hub that hands every subscriber the same channel instead of a new one
MakeChanShared(st) == 1

\* ch := make(chan Event, 10): a channel that did not exist before
MakeChan(st) == CHOOSE ch \in Chans : st[ch] = "unmade" /\ \A c \in Chans : c < ch => st[c] # "unmade"

SubscribeCall(p, u) ==
    /\ pc[p] = "idle"
    /\ calls < MaxCalls
    /\ calls' = calls + 1
    /\ Cardinality({c \in Chans : chState[c] # "unmade"}) < firstChan + MaxChans
    /\ LET ch == MakeChan(chState) IN
        /\ chState' = [chState EXCEPT ![ch] = "open"]
        /\ chUser' = [chUser EXCEPT ![ch] = u]
        /\ pChan' = [pChan EXCEPT ![p] = ch]
    /\ pUser' = [pUser EXCEPT ![p] = u]
    /\ pc' = [pc EXCEPT ![p] = "sub_lock"]
    /\ UNCHANGED <<subscribers, mu, delivered, nrecv, returned, unsubCalls,
                   unsubDone, pEvent, pTodo, pSeen, nextEvent, firstEvent, firstChan,
                   evUser, evProc, fanned, prior>>

\* h.mu.Lock(); register ch under userID
SubscribeLock(p) ==
    /\ pc[p] = "sub_lock"
    /\ CanLock
    /\ mu' = [mu EXCEPT !.w = p]
    /\ subscribers' = RegisterSub(subscribers, pUser[p], pChan[p])
    /\ prior' = [prior EXCEPT ![pChan[p]] = fanned]
    /\ pc' = [pc EXCEPT ![p] = "sub_ret"]
    /\ UNCHANGED <<calls, chState, chUser, delivered, nrecv, returned, unsubCalls,
                   unsubDone, pUser, pChan, pEvent, pTodo, pSeen, nextEvent,
                   firstEvent, firstChan, evUser, evProc, fanned>>

\* return ch, func() {...}; the deferred h.mu.Unlock() runs
SubscribeReturn(p) ==
    /\ pc[p] = "sub_ret"
    /\ mu' = [mu EXCEPT !.w = NoProc]
    /\ returned' = returned \cup {pChan[p]}
    /\ pc' = [pc EXCEPT ![p] = "idle"]
    /\ pUser' = [pUser EXCEPT ![p] = NoUser]
    /\ pChan' = [pChan EXCEPT ![p] = 0]
    /\ UNCHANGED <<calls, subscribers, chState, chUser, delivered, nrecv, unsubCalls,
                   unsubDone, pEvent, pTodo, pSeen, nextEvent, firstEvent, firstChan,
                   evUser, evProc, fanned, prior>>

\* ------------------------------------------- the closure Subscribe returns
\* if subs, exists := h.subscribers[userID]; exists {
\*     delete(subs, ch); if len(subs) == 0 { delete(h.subscribers, userID) } }
\* a closure that leaves the user's key in the registry when its set is empty
RemoveSubKeepingKey(subs, u, ch) ==
    IF u \in DOMAIN subs THEN MapPut(subs, u, subs[u] \ {ch}) ELSE subs

RemoveSub(subs, u, ch) ==
    IF u \in DOMAIN subs
    THEN LET rest == subs[u] \ {ch}
         IN IF rest = {} THEN MapDelete(subs, u) ELSE MapPut(subs, u, rest)
    ELSE subs

\* close(ch): closing a closed channel panics
CloseChan(st) == IF st = "open" THEN "closed" ELSE "panic"

UnsubscribeCall(p, ch) ==
    /\ pc[p] = "idle"
    /\ calls < MaxCalls
    /\ calls' = calls + 1
    /\ ch \in returned
    /\ SumOver(unsubCalls, Chans) < MaxUnsubCalls
    /\ unsubCalls' = [unsubCalls EXCEPT ![ch] = @ + 1]
    /\ pChan' = [pChan EXCEPT ![p] = ch]
    /\ pUser' = [pUser EXCEPT ![p] = chUser[ch]]
    /\ pc' = [pc EXCEPT ![p] = "unsub_lock"]
    /\ UNCHANGED <<subscribers, mu, chState, chUser, delivered, nrecv,
                   returned, unsubDone, pEvent, pTodo, pSeen, nextEvent,
                   firstEvent, firstChan, evUser, evProc, fanned, prior>>

\* h.mu.Lock(); the delete(s); close(ch)
UnsubscribeLock(p) ==
    /\ pc[p] = "unsub_lock"
    /\ CanLock
    /\ mu' = [mu EXCEPT !.w = p]
    /\ subscribers' = RemoveSub(subscribers, pUser[p], pChan[p])
    /\ LET st == CloseChan(chState[pChan[p]])
       IN IF st = "panic"
          THEN /\ pc' = [pc EXCEPT ![p] = "unsub_panic"]
               /\ UNCHANGED chState
          ELSE /\ pc' = [pc EXCEPT ![p] = "unsub_ret"]
               /\ chState' = [chState EXCEPT ![pChan[p]] = st]
    /\ UNCHANGED <<calls, chUser, delivered, nrecv, returned, unsubCalls, unsubDone,
                   pUser, pChan, pEvent, pTodo, pSeen, nextEvent, firstEvent, firstChan,
                   evUser, evProc, fanned, prior>>

\* the deferred h.mu.Unlock() runs, on return and while panicking alike
UnsubscribeReturn(p) ==
    /\ pc[p] \in {"unsub_ret", "unsub_panic"}
    /\ mu' = [mu EXCEPT !.w = NoProc]
    /\ IF pc[p] = "unsub_ret"
       THEN /\ pc' = [pc EXCEPT ![p] = "idle"]
            /\ unsubDone' = unsubDone \cup {pChan[p]}
       ELSE /\ pc' = [pc EXCEPT ![p] = "panicked"]
            /\ UNCHANGED unsubDone
    /\ pUser' = [pUser EXCEPT ![p] = NoUser]
    /\ pChan' = [pChan EXCEPT ![p] = 0]
    /\ UNCHANGED <<calls, subscribers, chState, chUser, delivered, nrecv, returned,
                   unsubCalls, pEvent, pTodo, pSeen, nextEvent, firstEvent, firstChan,
                   evUser, evProc, fanned, prior>>

\* -------------------------------------------------------------- Hub.Publish
\* a Publish that ranges over every registered channel, whoever its user
TargetsAll(subs, u) == UNION {subs[x] : x \in DOMAIN subs}

\* subs, ok := h.subscribers[userID]; if !ok { return }; for ch := range subs
Targets(subs, u) == IF u \in DOMAIN subs THEN subs[u] ELSE {}

\* the send accepts one event more than the buffer holds
TrySendOffByOne(n) == IF n <= Capacity THEN "send" ELSE "drop"

\* a plain `ch <- event` without the default branch: waits while the buffer is full
TrySendBlocking(n) == IF n < Capacity THEN "send" ELSE "wait"

\* select { case ch <- event: default: } on a channel holding n of Capacity
\* events: "send" enqueues, "drop" takes the default branch (the select never
\* gives "wait": with a default branch it does not wait for the consumer)
TrySend(n) == IF n < Capacity THEN "send" ELSE "drop"

\* the event jumps the queue
EnqueueFront(buf, e) == <<e>> \o buf

\* the event goes in right behind the oldest one
EnqueueBehindHead(buf, e) ==
    IF buf = <<>> THEN <<e>> ELSE <<Head(buf), e>> \o Tail(buf)

\* a channel is a FIFO queue: ch <- event puts the event behind those buffered
Enqueue(buf, e) == Append(buf, e)

\* event.Timestamp = time.Now().UTC()
PublishCall(p, u) ==
    /\ pc[p] = "idle"
    /\ calls < MaxCalls
    /\ calls' = calls + 1
    /\ nextEvent < firstEvent + MaxEvents
    /\ nextEvent' = nextEvent + 1
    /\ evUser' = MapPut(evUser, nextEvent + 1, u)
    /\ evProc' = MapPut(evProc, nextEvent + 1, p)
    /\ pEvent' = [pEvent EXCEPT ![p] = nextEvent + 1]
    /\ pUser' = [pUser EXCEPT ![p] = u]
    /\ pc' = [pc EXCEPT ![p] = "pub_rlock"]
    /\ UNCHANGED <<subscribers, mu, chState, chUser, delivered, nrecv,
                   returned, unsubCalls, unsubDone, pChan, pTodo, pSeen,
                   firstEvent, firstChan, fanned, prior>>

\* h.mu.RLock(); read the user's channel set
PublishRLock(p) ==
    /\ pc[p] = "pub_rlock"
    /\ CanRLock
    /\ mu' = [mu EXCEPT !.r = @ \cup {p}]
    /\ pTodo' = [pTodo EXCEPT ![p] = Targets(subscribers, pUser[p])]
    /\ fanned' = fanned \cup {pEvent[p]}
    /\ pc' = [pc EXCEPT ![p] = "pub_loop"]
    /\ UNCHANGED <<calls, subscribers, chState, chUser, delivered, nrecv, returned,
                   unsubCalls, unsubDone, pUser, pChan, pEvent, pSeen,
                   nextEvent, firstEvent, firstChan, evUser, evProc, prior>>

\* one iteration of the range loop (map order is unspecified): a send on a
\* closed channel panics, otherwise the select sends or drops
PublishSend(p, ch) ==
    /\ pc[p] = "pub_loop"
    /\ ch \in pTodo[p]
    /\ pTodo' = [pTodo EXCEPT ![p] = @ \ {ch}]
    /\ pSeen' = [pSeen EXCEPT ![p] = MapPut(@, ch, Len(Buf(ch)))]
    /\ IF chState[ch] = "closed"
       THEN /\ pc' = [pc EXCEPT ![p] = "pub_panic"]
            /\ UNCHANGED delivered
       ELSE /\ TrySend(Len(Buf(ch))) # "wait"
            /\ pc' = pc
            /\ delivered' = IF TrySend(Len(Buf(ch))) = "send"
                            THEN [delivered EXCEPT ![ch] = Enqueue(@, pEvent[p])]
                            ELSE delivered
    /\ UNCHANGED <<calls, subscribers, mu, chState, chUser, nrecv, returned,
                   unsubCalls, unsubDone, pUser, pChan, pEvent, nextEvent,
                   firstEvent, firstChan, evUser, evProc, fanned, prior>>

\* the loop is over: the call is about to return
PublishDone(p) ==
    /\ pc[p] = "pub_loop"
    /\ pTodo[p] = {}
    /\ pc' = [pc EXCEPT ![p] = "pub_ret"]
    /\ UNCHANGED <<calls, subscribers, mu, chState, chUser, delivered, nrecv,
                   returned, unsubCalls, unsubDone, pUser, pChan, pEvent,
                   pTodo, pSeen, nextEvent, firstEvent, firstChan, evUser, evProc,
                   fanned, prior>>

\* the deferred h.mu.RUnlock() runs, on return and while panicking alike
PublishReturn(p) ==
    /\ pc[p] \in {"pub_ret", "pub_panic"}
    /\ mu' = [mu EXCEPT !.r = @ \ {p}]
    /\ pc' = [pc EXCEPT ![p] = IF pc[p] = "pub_ret" THEN "idle" ELSE "panicked"]
    /\ pUser' = [pUser EXCEPT ![p] = NoUser]
    /\ pEvent' = [pEvent EXCEPT ![p] = 0]
    /\ pTodo' = [pTodo EXCEPT ![p] = {}]
    /\ pSeen' = [pSeen EXCEPT ![p] = <<>>]
    /\ UNCHANGED <<calls, subscribers, chState, chUser, delivered, nrecv,
                   returned, unsubCalls, unsubDone, pChan, nextEvent,
                   firstEvent, firstChan, evUser, evProc, fanned, prior>>

\* ------------------------------------------------ the consumer of a channel
\* event, ok := <-ch  with an event buffered (an empty open channel blocks, an
\* empty closed one yields ok = false and changes nothing)
Receive(ch) ==
    /\ ch \in returned
    /\ nrecv[ch] < Len(delivered[ch])
    /\ SumOver(nrecv, Chans) < MaxRecv
    /\ nrecv' = [nrecv EXCEPT ![ch] = @ + 1]
    /\ UNCHANGED <<calls, subscribers, mu, chState, chUser, delivered, returned,
                   unsubCalls, unsubDone, pc, pUser, pChan, pEvent, pTodo,
                   pSeen, nextEvent, firstEvent, firstChan, evUser, evProc, fanned, prior>>

\* ------------------------------------------------------------ initial states
\* NewHub(): an empty registry, no goroutine inside the hub
HubInitWith(subs, st, cu, del, ret, n, eu, ep) ==
    /\ subscribers = subs
    /\ mu = [w |-> NoProc, r |-> {}]
    /\ chState = st
    /\ chUser = cu
    /\ delivered = del
    /\ nrecv = [c \in Chans |-> 0]
    /\ returned = ret
    /\ unsubCalls = [c \in Chans |-> 0]
    /\ unsubDone = {}
    /\ pc = [p \in Procs |-> "idle"]
    /\ pUser = [p \in Procs |-> NoUser]
    /\ pChan = [p \in Procs |-> 0]
    /\ pEvent = [p \in Procs |-> 0]
    /\ pTodo = [p \in Procs |-> {}]
    /\ pSeen = [p \in Procs |-> <<>>]
    /\ calls = 0
    /\ nextEvent = n
    /\ firstEvent = n
    /\ firstChan = Cardinality(ret)
    /\ evUser = eu
    /\ evProc = ep
    /\ fanned = 1..n
    /\ prior = [c \in Chans |-> {}]

NewHub ==
    HubInitWith(<<>>, [c \in Chans |-> "unmade"], [c \in Chans |-> NoUser],
                [c \in Chans |-> <<>>], {}, 0, <<>>, <<>>)

\* The hub after Subscribe("A") returned channel 1 and goroutine p1 then
\* published Capacity events to "A" that nobody has read yet: the channel is
\* full.
HubLoaded ==
    LET n == Capacity IN
        HubInitWith([u \in {"A"} |-> {1}],
                    [c \in Chans |-> IF c = 1 THEN "open" ELSE "unmade"],
                    [c \in Chans |-> IF c = 1 THEN "A" ELSE NoUser],
                    [c \in Chans |-> IF c = 1 THEN [i \in 1..n |-> i] ELSE <<>>],
                    {1}, n, [i \in 1..n |-> "A"], [i \in 1..n |-> "p1"])

HubInit == NewHub \/ HubLoaded

\* ========================================================= the ledger store
\* Every store call is one database transaction (or one statement); the
\* actions below run them one at a time.
\*
\* Amounts are counted in units of 2^59 cents: an int64 then holds -16..15
\* units, and Go's int64 arithmetic on such amounts is arithmetic modulo 32.
\* Go's int64 addition wraps around
Wrap64(x) == ((x + Int64Span \div 2) % Int64Span) - Int64Span \div 2

\* pgx scans SUM(amount_cents), a numeric, into an int64 only when it fits
FitsInt64(x) == x >= -(Int64Span \div 2) /\ x <= Int64Max

OK == "ok"
ErrNotFound == "NotFound"
ErrInvalid == "InvalidInput"
ErrBudgetExceeded == "BudgetExceeded"
ErrOther == "error"

PlanIds == 1..MaxPlans
CatIds == 1..MaxCats
ItemIds == 1..MaxItems
NoteIds == 1..MaxNotes

\* the id lists a caller may send to a Reorder: any ids, repeated or not
IdLists(S) == UNION {[1..n -> S] : n \in 0..MaxListLen}

\* the lists of distinct ids of S, of one id or more
DistinctLists(S) == {l \in IdLists(S) : Len(l) >= 1 /\ Cardinality(Range(l)) = Len(l)}

\* ... WHERE id = $1 AND user_id = $2
PlanOwnedBy(u, p) == p \in DOMAIN plans /\ plans[p].owner = u

CatsOfPlan(p) == {c \in DOMAIN cats : cats[c].plan = p}

ItemsOfCat(c) == {i \in DOMAIN items : items[i].cat = c}

\* expense_items i JOIN expense_categories c ON c.id = i.category_id WHERE c.plan_id = $1
ItemsOfPlan(p) == {i \in DOMAIN items : items[i].cat \in CatsOfPlan(p)}

NotesOfPlan(p) == {n \in DOMAIN notes : notes[n].plan = p}

\* SELECT COALESCE(SUM(i.amount_cents), 0) ...
sumPlanAmount(p) == SumOver([i \in DOMAIN items |-> items[i].amount], ItemsOfPlan(p))

\* SELECT p.id ... WHERE i.id = $1: the plan of an item, 0 when there is none
PlanOfItem(i) == IF i \in DOMAIN items THEN cats[items[i].cat].plan ELSE 0

\* the plan of a note, 0 when there is none
PlanOfNote(n) == IF n \in DOMAIN notes THEN notes[n].plan ELSE 0

\* a position taken from the number of siblings instead of their positions
MaxOrderByCount(rows, S) == Cardinality(S) - 1

\* a first child that is given position 1
MaxOrderEmptyZero(rows, S) ==
    IF S = {} THEN 0
    ELSE LET top == CHOOSE r \in S : \A q \in S : rows[q].pos <= rows[r].pos
         IN rows[top].pos

\* SELECT COALESCE(MAX(sort_order), -1) over the rows S
MaxOrder(rows, S) ==
    IF S = {} THEN -1
    ELSE LET top == CHOOSE r \in S : \A q \in S : rows[q].pos <= rows[r].pos
         IN rows[top].pos

RECURSIVE ReadOrdered(_, _)
\* SELECT ... ORDER BY sort_order, created_at over the rows S (ids are handed
\* out in creation order)
ReadOrdered(rows, S) ==
    IF S = {} THEN <<>>
    ELSE LET first == CHOOSE r \in S : \A q \in S :
                          \/ rows[r].pos < rows[q].pos
                          \/ rows[r].pos = rows[q].pos /\ r <= q
         IN <<first>> \o ReadOrdered(rows, S \ {first})

\* ------------------------------------------------ what a call returned
\* lastOp keeps the last store call and its result.  For a Reorder it also
\* keeps the parent the call resolved (0 for none), whether the list left out
\* a child of that parent or named an id that is no child of it (both judged
\* on the rows before the call), whether the list named an id twice, and the
\* list itself when the call succeeded.
\* For an item Create it keeps whether owner and category were valid and
\* whether the plan's total plus the new amount was within the ceiling, in
\* exact arithmetic.  For a read of a plan it keeps the spent and remaining
\* amounts returned.  by is the caller, or NoUser when the call addresses a
\* row that is missing or under another user's plan, and plan the plan the
\* call is about (0 for none).  status is the HTTP status the handler of the
\* call answered with (0 while the request is not answered) and notified the
\* plan id of the budget_updated event it published (0 for none).  budget is
\* the ceiling a CreateWithDetails was called with; a plan Create request also
\* records its budget_cents there and its period as two day numbers.
Outcome(op, res) ==
    [op |-> op, result |-> res, parent |-> 0, ids |-> <<>>,
     omits |-> FALSE, foreign |-> FALSE, repeats |-> FALSE,
     valid |-> FALSE, within |-> FALSE,
     spent |-> 0, remaining |-> 0, by |-> NoUser, plan |-> 0,
     status |-> 0, notified |-> 0, budget |-> 0,
     periodStart |-> 0, periodEnd |-> 0]

\* the outcome marked with the caller and the plan of the call when every
\* plan, category, item or note the call addresses exists under a plan of the
\* caller
Stamp(out, u, owned, p) ==
    [out EXCEPT !.by = IF owned THEN u ELSE NoUser, !.plan = IF owned THEN p ELSE 0]

ReorderOutcome(op, res, parent, children, ids) ==
    [Outcome(op, res) EXCEPT
        !.parent = parent,
        !.ids = IF res = OK THEN ids ELSE <<>>,
        !.omits = parent # 0 /\ \E r \in children : r \notin Range(ids),
        !.foreign = parent # 0 /\ \E k \in DOMAIN ids : ids[k] \notin children,
        !.repeats = \E k, l \in DOMAIN ids : k # l /\ ids[k] = ids[l]]

ReorderOps == {"ItemReorder", "NoteReorder", "ReorderCategories"}

\* ------------------------------------------------ ItemRepository.Create
\* the category exists under a plan of the user
CatOwnedBy(u, c) == c \in DOMAIN cats /\ plans[cats[c].plan].owner = u

ItemCreateResult(u, p, c, amt) ==
    IF ~PlanOwnedBy(u, p) THEN ErrNotFound
    ELSE IF ~(c \in DOMAIN cats /\ cats[c].plan = p) THEN ErrNotFound
    ELSE IF ~FitsInt64(sumPlanAmount(p)) THEN ErrOther
    ELSE IF Wrap64(sumPlanAmount(p) + amt) > plans[p].ceiling THEN ErrBudgetExceeded
    ELSE OK

ItemCreate(u, p, c, amt, done) ==
    LET res == ItemCreateResult(u, p, c, amt) IN
    /\ res = OK => nItems < MaxItems
    /\ lastOp' = Stamp([Outcome("ItemCreate", res) EXCEPT
                            !.valid = PlanOwnedBy(u, p) /\ c \in CatsOfPlan(p),
                            !.within = /\ PlanOwnedBy(u, p) /\ c \in CatsOfPlan(p)
                                       /\ sumPlanAmount(p) + amt <= plans[p].ceiling],
                       u, PlanOwnedBy(u, p) /\ CatOwnedBy(u, c), p)
    /\ IF res = OK
       THEN /\ items' = MapPut(items, nItems + 1,
                               [cat |-> c, amount |-> amt, done |-> done,
                                pos |-> MaxOrder(items, ItemsOfCat(c)) + 1])
            /\ nItems' = nItems + 1
       ELSE UNCHANGED <<items, nItems>>
    /\ UNCHANGED <<plans, cats, notes, nPlans, nCats, nNotes>>

\* ------------------------------------------------ ItemRepository.Delete
\* an item lookup that leaves out the owner join
ItemOwnedByAnyone(u, i) == i \in DOMAIN items

\* DELETE ... WHERE i.id = $1 AND ... p.user_id = $2
ItemOwnedBy(u, i) ==
    i \in DOMAIN items /\ plans[cats[items[i].cat].plan].owner = u

\* a delete that moves the later siblings up by one place
ItemsAfterDeleteCompacted(i) ==
    [r \in DOMAIN items \ {i} |->
        IF items[r].cat = items[i].cat /\ items[r].pos > items[i].pos
        THEN [items[r] EXCEPT !.pos = @ - 1]
        ELSE items[r]]

\* DELETE FROM expense_items i USING ... WHERE i.id = $1: the one row goes
ItemsAfterDelete(i) == MapDelete(items, i)

ItemDelete(u, i) ==
    LET res == IF ItemOwnedBy(u, i) THEN OK ELSE ErrNotFound IN
    /\ lastOp' = Stamp(Outcome("ItemDelete", res), u, ItemOwnedBy(u, i), PlanOfItem(i))
    /\ items' = IF res = OK THEN ItemsAfterDelete(i) ELSE items
    /\ UNCHANGED <<plans, cats, notes, nPlans, nCats, nItems, nNotes>>

\* ------------------------------------------------ ItemRepository.Update
\* a total that leaves the item's current amount in
NewTotalKeepingCurrent(total, cur, amt) == Wrap64(total + amt)

\* newTotal := currentTotal - currentAmount + amountCents, in int64
NewTotal(total, cur, amt) == Wrap64(Wrap64(total - cur) + amt)

\* one caller at a time: currentAmount is the item's amount
ItemUpdateResult(u, i, amt) ==
    IF ~ItemOwnedBy(u, i) THEN ErrNotFound
    ELSE IF ~FitsInt64(sumPlanAmount(cats[items[i].cat].plan)) THEN ErrOther
    ELSE IF NewTotal(sumPlanAmount(cats[items[i].cat].plan), items[i].amount, amt)
            > plans[cats[items[i].cat].plan].ceiling THEN ErrBudgetExceeded
    ELSE OK

ItemUpdate(u, i, amt) ==
    LET res == ItemUpdateResult(u, i, amt) IN
    /\ lastOp' = Stamp(Outcome("ItemUpdate", res), u, ItemOwnedBy(u, i), PlanOfItem(i))
    /\ items' = IF res = OK THEN [items EXCEPT ![i].amount = amt] ELSE items
    /\ UNCHANGED <<plans, cats, notes, nPlans, nCats, nItems, nNotes>>

\* ------------------------------------------------ ItemRepository.UpdateColor
\* the colour of an item is not part of the state: the call only finds the
\* item under the user's plans or not
ItemUpdateColor(u, i) ==
    /\ lastOp' = Stamp(Outcome("ItemUpdateColor",
                               IF ItemOwnedBy(u, i) THEN OK ELSE ErrNotFound),
                       u, ItemOwnedBy(u, i), PlanOfItem(i))
    /\ UNCHANGED <<plans, cats, items, notes, nPlans, nCats, nItems, nNotes>>

\* ------------------------------------------------ ItemRepository.Toggle
\* a Toggle that runs the budget check of Create on the item's amount
ItemToggleResultChecked(u, i) ==
    IF ~ItemOwnedBy(u, i) THEN ErrNotFound
    ELSE IF Wrap64(sumPlanAmount(cats[items[i].cat].plan) + items[i].amount)
            > plans[cats[items[i].cat].plan].ceiling THEN ErrBudgetExceeded
    ELSE OK

\* SELECT i.is_completed ... WHERE i.id = $1 AND p.user_id = $2 FOR UPDATE
ItemToggleResult(u, i) == IF ItemOwnedBy(u, i) THEN OK ELSE ErrNotFound

\* isCompleted is "nil" (flip the flag) or the value to set
NewValue(current, isCompleted) == IF isCompleted = "nil" THEN ~current ELSE isCompleted = "true"

ItemToggle(u, i, isCompleted) ==
    LET res == ItemToggleResult(u, i) IN
    /\ lastOp' = Stamp(Outcome("ItemToggle", res), u, ItemOwnedBy(u, i), PlanOfItem(i))
    /\ items' = IF res = OK
                THEN [items EXCEPT ![i].done = NewValue(items[i].done, isCompleted)]
                ELSE items
    /\ UNCHANGED <<plans, cats, notes, nPlans, nCats, nItems, nNotes>>

\* ------------------------------------------------ PlanHandler.Get
\* SUM(CASE WHEN i.is_completed THEN i.amount_cents ELSE 0 END) over the plan
CompletedSum(p) ==
    SumOver([i \in DOMAIN items |-> IF items[i].done THEN items[i].amount ELSE 0],
            ItemsOfPlan(p))

\* PlanRepository.GetSpentCents
GetSpentCents(p) == CompletedSum(p)

\* RemainingCents: plan.BudgetCents - spentCents, in int64
RemainingCents(budget, spent) == Wrap64(budget - spent)

\* GetByID, GetSpentCents (Scan into an int64) and toPlanResponse
PlanGet(u, p) ==
    LET res == IF ~PlanOwnedBy(u, p) THEN ErrNotFound
               ELSE IF ~FitsInt64(GetSpentCents(p)) THEN ErrOther
               ELSE OK
    IN
    /\ lastOp' = Stamp(IF res = OK
                       THEN [Outcome("PlanGet", res) EXCEPT
                                !.parent = p,
                                !.spent = GetSpentCents(p),
                                !.remaining = RemainingCents(plans[p].ceiling, GetSpentCents(p))]
                       ELSE [Outcome("PlanGet", res) EXCEPT
                                !.parent = IF PlanOwnedBy(u, p) THEN p ELSE 0],
                       u, PlanOwnedBy(u, p), p)
    /\ UNCHANGED <<plans, cats, items, notes, nPlans, nCats, nItems, nNotes>>

\* ------------------------------------------------ the Reorder protocol
\* a bulk update that keeps the 1-based ordinal
OrdinalPosOneBased(ord) == ord

\* SET sort_order = v.ord - 1
OrdinalPos(ord) == ord - 1

\* a Reorder that never compares the list with the parent's child count
TotalMatchesAlways(total, n) == TRUE

\* if total != len(ids) { return ErrInvalid }
TotalMatches(total, n) == total = n

\* count checks that count the entries of the list instead of the rows
ReorderResultCountingEntries(children, ids, mismatch) ==
    LET count == Cardinality({k \in DOMAIN ids : ids[k] \in children})
        total == Cardinality(children)
    IN IF count # Len(ids) THEN ErrInvalid
       ELSE IF ~TotalMatches(total, Len(ids)) THEN ErrInvalid
       ELSE OK

\* the count checks and the row count of the bulk UPDATE, for the parent's
\* rows `children`; mismatch is the error of the last check
ReorderResult(children, ids, mismatch) ==
    LET count == Cardinality({r \in children : r \in Range(ids)})
        total == Cardinality(children)
        affected == Cardinality({r \in children : r \in Range(ids)})
    IN IF count # Len(ids) THEN ErrInvalid
       ELSE IF ~TotalMatches(total, Len(ids)) THEN ErrInvalid
       ELSE IF affected # Len(ids) THEN mismatch
       ELSE OK

\* UPDATE ... SET sort_order = v.ord - 1 FROM unnest(ids) WITH ORDINALITY v
\* WHERE id = v.id AND parent = $2
Reposition(rows, children, ids) ==
    [r \in DOMAIN rows |->
        IF r \in children /\ r \in Range(ids)
        THEN [rows[r] EXCEPT !.pos = OrdinalPos(CHOOSE k \in DOMAIN ids : ids[k] = r)]
        ELSE rows[r]]

\* ------------------------------------------------ ItemRepository.Reorder
\* the category of the anchor item, 0 when the item is missing or not the user's
ItemAnchorCat(u, a) == IF ItemOwnedBy(u, a) THEN items[a].cat ELSE 0

ItemReorderResult(u, a, ids) ==
    IF Len(ids) = 0 THEN ErrInvalid
    ELSE IF ItemAnchorCat(u, a) = 0 THEN ErrNotFound
    ELSE ReorderResult(ItemsOfCat(ItemAnchorCat(u, a)), ids, ErrInvalid)

ItemReorder(u, a, ids) ==
    LET res == ItemReorderResult(u, a, ids) IN
    /\ lastOp' = Stamp(ReorderOutcome("ItemReorder", res, ItemAnchorCat(u, a),
                                      ItemsOfCat(ItemAnchorCat(u, a)), ids),
                       u, ItemOwnedBy(u, a), PlanOfItem(a))
    /\ items' = IF res = OK
                THEN Reposition(items, ItemsOfCat(ItemAnchorCat(u, a)), ids)
                ELSE items
    /\ UNCHANGED <<plans, cats, notes, nPlans, nCats, nItems, nNotes>>

\* ------------------------------------------------ NoteRepository
NoteCreate(u, p) ==
    LET res == IF PlanOwnedBy(u, p) THEN OK ELSE ErrNotFound IN
    /\ res = OK => nNotes < MaxNotes
    /\ lastOp' = Stamp(Outcome("NoteCreate", res), u, PlanOwnedBy(u, p), p)
    /\ IF res = OK
       THEN /\ notes' = MapPut(notes, nNotes + 1,
                               [plan |-> p, pos |-> MaxOrder(notes, NotesOfPlan(p)) + 1])
            /\ nNotes' = nNotes + 1
       ELSE UNCHANGED <<notes, nNotes>>
    /\ UNCHANGED <<plans, cats, items, nPlans, nCats, nItems>>

NoteOwnedBy(u, n) == n \in DOMAIN notes /\ plans[notes[n].plan].owner = u

\* the plan of the anchor note, 0 when the note is missing or not the user's
NoteAnchorPlan(u, a) == IF NoteOwnedBy(u, a) THEN notes[a].plan ELSE 0

NoteReorderResult(u, a, ids) ==
    IF Len(ids) = 0 THEN ErrInvalid
    ELSE IF NoteAnchorPlan(u, a) = 0 THEN ErrNotFound
    ELSE ReorderResult(NotesOfPlan(NoteAnchorPlan(u, a)), ids, ErrInvalid)

NoteReorder(u, a, ids) ==
    LET res == NoteReorderResult(u, a, ids) IN
    /\ lastOp' = Stamp(ReorderOutcome("NoteReorder", res, NoteAnchorPlan(u, a),
                                      NotesOfPlan(NoteAnchorPlan(u, a)), ids),
                       u, NoteOwnedBy(u, a), PlanOfNote(a))
    /\ notes' = IF res = OK
                THEN Reposition(notes, NotesOfPlan(NoteAnchorPlan(u, a)), ids)
                ELSE notes
    /\ UNCHANGED <<plans, cats, items, nPlans, nCats, nItems, nNotes>>

\* ------------------------------------------------ PlanRepository.ReorderCategories
ReorderCategoriesResult(u, p, ids) ==
    IF ~PlanOwnedBy(u, p) THEN ErrNotFound
    ELSE ReorderResult(CatsOfPlan(p), ids, ErrNotFound)

ReorderCategories(u, p, ids) ==
    LET res == ReorderCategoriesResult(u, p, ids) IN
    /\ lastOp' = Stamp(ReorderOutcome("ReorderCategories", res,
                                      IF PlanOwnedBy(u, p) THEN p ELSE 0,
                                      IF PlanOwnedBy(u, p) THEN CatsOfPlan(p) ELSE {}, ids),
                       u, PlanOwnedBy(u, p), p)
    /\ cats' = IF res = OK THEN Reposition(cats, CatsOfPlan(p), ids) ELSE cats
    /\ UNCHANGED <<plans, items, notes, nPlans, nCats, nItems, nNotes>>

\* ------------------------------------------------ PlanRepository.CreateWithDetails
\* the input tree: in.ceiling, in.cats (each [blank, items], an item being
\* [blank, amount, done]) and in.notes (each [blank]); blank says the title or
\* content trims to ""
RECURSIVE FlatItems(_, _)
\* the items of categories k.. in insertion order, each with the index of its
\* category and its itemIdx
FlatItems(cs, k) ==
    IF k > Len(cs) THEN <<>>
    ELSE [j \in 1..Len(cs[k].items) |->
             [catIdx |-> k, blank |-> cs[k].items[j].blank,
              amount |-> cs[k].items[j].amount, done |-> cs[k].items[j].done,
              pos |-> j - 1]]
         \o FlatItems(cs, k + 1)

RECURSIVE TotalOf(_)
\* total += item.AmountCents, in int64
TotalOf(flat) ==
    IF flat = <<>> THEN 0
    ELSE Wrap64(TotalOf(SubSeq(flat, 1, Len(flat) - 1)) + flat[Len(flat)].amount)

\* the exact sum of the item amounts, for comparison
ExactTotal(flat) == SumOver([j \in DOMAIN flat |-> flat[j].amount], DOMAIN flat)

\* the input has a category, no blank title or content and no amount <= 0
WellFormed(in) ==
    /\ Len(in.cats) > 0
    /\ \A k \in DOMAIN in.cats :
           /\ ~in.cats[k].blank
           /\ \A j \in DOMAIN in.cats[k].items :
                  ~in.cats[k].items[j].blank /\ in.cats[k].items[j].amount > 0
    /\ \A k \in DOMAIN in.notes : ~in.notes[k].blank

CreateWithDetailsResult(in) ==
    LET flat == FlatItems(in.cats, 1) IN
    IF Len(in.cats) = 0 THEN ErrInvalid
    ELSE IF TotalOf(flat) > in.ceiling THEN ErrBudgetExceeded
    ELSE IF \E k \in DOMAIN in.cats : in.cats[k].blank THEN ErrInvalid
    ELSE IF \E j \in DOMAIN flat : flat[j].blank \/ flat[j].amount <= 0 THEN ErrInvalid
    ELSE IF \E k \in DOMAIN in.notes : in.notes[k].blank THEN ErrInvalid
    ELSE OK

\* the rows of a committed CreateWithDetails: the plan, its categories at
\* sort_order idx, their items at itemIdx and the notes at idx
InsertDetails(u, in) ==
    LET flat == FlatItems(in.cats, 1)
        p == nPlans + 1
    IN
    /\ plans' = MapPut(plans, p, [owner |-> u, ceiling |-> in.ceiling])
    /\ cats' = [c \in (DOMAIN cats) \cup (nCats + 1 .. nCats + Len(in.cats)) |->
                   IF c > nCats THEN [plan |-> p, pos |-> c - nCats - 1]
                   ELSE cats[c]]
    /\ items' = [i \in (DOMAIN items) \cup (nItems + 1 .. nItems + Len(flat)) |->
                    IF i > nItems
                    THEN [cat |-> nCats + flat[i - nItems].catIdx,
                          amount |-> flat[i - nItems].amount,
                          done |-> flat[i - nItems].done,
                          pos |-> flat[i - nItems].pos]
                    ELSE items[i]]
    /\ notes' = [n \in (DOMAIN notes) \cup (nNotes + 1 .. nNotes + Len(in.notes)) |->
                    IF n > nNotes THEN [plan |-> p, pos |-> n - nNotes - 1]
                    ELSE notes[n]]
    /\ nPlans' = p
    /\ nCats' = nCats + Len(in.cats)
    /\ nItems' = nItems + Len(flat)
    /\ nNotes' = nNotes + Len(in.notes)

PlanCreateWithDetails(u, in) ==
    LET res == CreateWithDetailsResult(in)
        flat == FlatItems(in.cats, 1)
        p == nPlans + 1
    IN
    /\ res = OK => /\ nPlans < MaxPlans
                   /\ nCats + Len(in.cats) <= MaxCats
                   /\ nItems + Len(flat) <= MaxItems
                   /\ nNotes + Len(in.notes) <= MaxNotes
    /\ lastOp' = Stamp([Outcome("CreateWithDetails", res) EXCEPT
                            !.valid = WellFormed(in),
                            !.within = ExactTotal(flat) <= in.ceiling,
                            !.budget = in.ceiling],
                       u, TRUE, IF res = OK THEN p ELSE 0)
    /\ IF res = OK
       THEN InsertDetails(u, in)
       ELSE UNCHANGED <<plans, cats, items, notes, nPlans, nCats, nItems, nNotes>>

\* ------------------------------------------------ NoteRepository.Delete
NoteDelete(u, n) ==
    LET res == IF NoteOwnedBy(u, n) THEN OK ELSE ErrNotFound IN
    /\ lastOp' = Stamp(Outcome("NoteDelete", res), u, NoteOwnedBy(u, n), PlanOfNote(n))
    /\ notes' = IF res = OK THEN MapDelete(notes, n) ELSE notes
    /\ UNCHANGED <<plans, cats, items, nPlans, nCats, nItems, nNotes>>

\* ------------------------------------------------ PlanRepository.Delete
RECURSIVE Without(_, _)
\* the rows left when the rows S are deleted
Without(rows, S) ==
    IF S \cap DOMAIN rows = {} THEN rows
    ELSE LET r == CHOOSE x \in S \cap DOMAIN rows : TRUE
         IN Without(MapDelete(rows, r), S \ {r})

\* DELETE FROM budget_plans WHERE id = $1 AND user_id = $2; the categories,
\* items and notes of the plan go with it (ON DELETE CASCADE)
PlanDelete(u, p) ==
    LET res == IF PlanOwnedBy(u, p) THEN OK ELSE ErrNotFound IN
    /\ lastOp' = Stamp([Outcome("PlanDelete", res) EXCEPT
                            !.parent = IF res = OK THEN p ELSE 0],
                       u, PlanOwnedBy(u, p), p)
    /\ IF res = OK
       THEN /\ plans' = MapDelete(plans, p)
            /\ cats' = Without(cats, CatsOfPlan(p))
            /\ items' = Without(items, ItemsOfPlan(p))
            /\ notes' = Without(notes, NotesOfPlan(p))
       ELSE UNCHANGED <<plans, cats, items, notes>>
    /\ UNCHANGED <<nPlans, nCats, nItems, nNotes>>

\* ------------------------------------------------ PlanRepository.Duplicate
\* The copy runs on one connection (tx).  The categories are read with
\* tx.Query and each copy is inserted with tx.Exec inside the rows.Next()
\* loop, while the result set is still open; the driver refuses a statement
\* on a connection that is busy with a result set ("conn busy"), so the first
\* insert of a category fails.  With no category the item block is skipped,
\* and the note loop fails the same way on its first note.
DuplicateResult(u, p) ==
    IF ~PlanOwnedBy(u, p) THEN ErrNotFound
    ELSE IF CatsOfPlan(p) # {} THEN ErrOther
    ELSE IF NotesOfPlan(p) # {} THEN ErrOther
    ELSE OK

\* the index of id r in the sequence of ids seq
IndexIn(seq, r) == CHOOSE k \in DOMAIN seq : seq[k] = r

Duplicate(u, p) ==
    LET res == DuplicateResult(u, p)
        np == nPlans + 1
        oldCats == ReadOrdered(cats, CatsOfPlan(p))
        oldItems == ReadOrdered(items, ItemsOfPlan(p))
        oldNotes == ReadOrdered(notes, NotesOfPlan(p))
    IN
    /\ res = OK => /\ nPlans < MaxPlans
                   /\ nCats + Len(oldCats) <= MaxCats
                   /\ nItems + Len(oldItems) <= MaxItems
                   /\ nNotes + Len(oldNotes) <= MaxNotes
    /\ lastOp' = Stamp([Outcome("Duplicate", res) EXCEPT
                            !.parent = IF PlanOwnedBy(u, p) THEN p ELSE 0],
                       u, PlanOwnedBy(u, p), IF res = OK THEN np ELSE p)
    /\ IF res = OK
       THEN /\ plans' = MapPut(plans, np, [owner |-> u, ceiling |-> plans[p].ceiling])
            /\ cats' = [c \in (DOMAIN cats) \cup (nCats + 1 .. nCats + Len(oldCats)) |->
                           IF c > nCats
                           THEN [plan |-> np, pos |-> cats[oldCats[c - nCats]].pos]
                           ELSE cats[c]]
            /\ items' = [i \in (DOMAIN items) \cup (nItems + 1 .. nItems + Len(oldItems)) |->
                            IF i > nItems
                            THEN [cat |-> nCats + IndexIn(oldCats, items[oldItems[i - nItems]].cat),
                                  amount |-> items[oldItems[i - nItems]].amount,
                                  done |-> items[oldItems[i - nItems]].done,
                                  pos |-> items[oldItems[i - nItems]].pos]
                            ELSE items[i]]
            /\ notes' = [n \in (DOMAIN notes) \cup (nNotes + 1 .. nNotes + Len(oldNotes)) |->
                            IF n > nNotes
                            THEN [plan |-> np, pos |-> notes[oldNotes[n - nNotes]].pos]
                            ELSE notes[n]]
            /\ nPlans' = np
            /\ nCats' = nCats + Len(oldCats)
            /\ nItems' = nItems + Len(oldItems)
            /\ nNotes' = nNotes + Len(oldNotes)
       ELSE UNCHANGED <<plans, cats, items, notes, nPlans, nCats, nItems, nNotes>>

\* ------------------------------------------------ PlanRepository.Create
\* the plan row and one category per entry of defaultCategories, sort_order idx
InsertPlan(u, budgetCents) ==
    /\ plans' = MapPut(plans, nPlans + 1, [owner |-> u, ceiling |-> budgetCents])
    /\ cats' = [c \in (DOMAIN cats) \cup (nCats + 1 .. nCats + DefaultCategories) |->
                   IF c > nCats THEN [plan |-> nPlans + 1, pos |-> c - nCats - 1]
                   ELSE cats[c]]
    /\ nPlans' = nPlans + 1
    /\ nCats' = nCats + DefaultCategories

PlanCreate(u, budgetCents) ==
    /\ nPlans < MaxPlans
    /\ lastOp' = Stamp(Outcome("PlanCreate", OK), u, TRUE, nPlans + 1)
    /\ InsertPlan(u, budgetCents)
    /\ UNCHANGED <<items, notes, nItems, nNotes>>

\* ------------------------------------------------ PlanRepository.Update
\* UPDATE budget_plans SET ..., budget_cents = $4 WHERE id = $1 AND user_id = $2
PlanUpdate(u, p, budgetCents) ==
    LET res == IF PlanOwnedBy(u, p) THEN OK ELSE ErrNotFound IN
    /\ lastOp' = Stamp(Outcome("PlanUpdate", res), u, PlanOwnedBy(u, p), p)
    /\ plans' = IF res = OK THEN [plans EXCEPT ![p].ceiling = budgetCents] ELSE plans
    /\ UNCHANGED <<cats, items, notes, nPlans, nCats, nItems, nNotes>>

\* ================================================ the HTTP handlers
\* A request runs its store call (the actions above, which leave status 0)
\* and then the rest of its handler: the mapping of the store error to a
\* status, the reads for the response, and the publish.  Requests are served
\* one at a time.

\* a handler that lacks the ErrBudgetExceeded branch
StatusOfErrorNoBudgetBranch(op, res) ==
    IF res = ErrNotFound THEN 404
    ELSE IF res = ErrInvalid /\ op \in ReorderOps THEN 400
    ELSE 500

\* the branches after the store call: notFound, badRequest, serverError.
\* Only the Reorder handlers test for ErrInvalid and only item Create and
\* Update for ErrBudgetExceeded (no other of these store calls returns them).
StatusOfError(op, res) ==
    IF res = ErrNotFound THEN 404
    ELSE IF res = ErrInvalid /\ op \in ReorderOps THEN 400
    ELSE IF res = ErrBudgetExceeded /\ op \in {"ItemCreate", "ItemUpdate"} THEN 400
    ELSE 500

\* http.StatusCreated, StatusNoContent or StatusOK of the handler
StatusOfSuccess(op) ==
    IF op \in {"ItemCreate", "NoteCreate", "PlanCreate", "Duplicate", "CreateWithDetails"}
    THEN 201
    ELSE IF op \in {"ItemDelete", "NoteDelete", "PlanDelete"} \cup ReorderOps THEN 204
    ELSE 200

\* the handlers that end with notifyBudgetUpdate
NotifyingOps == {"ItemCreate", "ItemUpdate", "ItemDelete", "ItemToggle"}

\* the handlers that read GetSpentCents and call publishBudgetUpdate themselves
PublishingOps == {"PlanUpdate", "Duplicate", "CreateWithDetails"}

\* GetByID and GetSpentCents both succeed
CanReadSpent(u, p) == PlanOwnedBy(u, p) /\ FitsInt64(GetSpentCents(p))

\* the rest of a handler whose store call returned lastOp.result
Answer ==
    LET op == lastOp.op
        u == lastOp.by
        p == lastOp.plan
    IN
    IF lastOp.result # OK
    THEN [lastOp EXCEPT !.status = StatusOfError(op, lastOp.result)]
    ELSE IF op = "PlanCreate"
    THEN [lastOp EXCEPT !.status = 201, !.notified = p]
    ELSE IF op \in PublishingOps
    THEN IF CanReadSpent(u, p)
         THEN [lastOp EXCEPT !.status = StatusOfSuccess(op), !.notified = p]
         ELSE [lastOp EXCEPT !.status = 500]
    ELSE IF op \in NotifyingOps
    THEN [lastOp EXCEPT !.status = StatusOfSuccess(op),
                        !.notified = IF CanReadSpent(u, p) THEN p ELSE 0]
    ELSE [lastOp EXCEPT !.status = StatusOfSuccess(op)]

\* AIHandler.GeneratePlan when CreateWithDetails returned ErrBudgetExceeded
\* or ErrInvalid: createFallbackPlan (Plans.Create and a note), then the
\* response and the publish for the fallback plan
IsFallback == lastOp.op = "CreateWithDetails" /\ lastOp.result \in {ErrInvalid, ErrBudgetExceeded}

Pending == lastOp.op # "none" /\ lastOp.status = 0

Respond ==
    /\ Pending
    /\ IF IsFallback
       THEN /\ InsertPlan(lastOp.by, lastOp.budget)
            /\ notes' = MapPut(notes, nNotes + 1, [plan |-> nPlans + 1, pos |-> 0])
            /\ nNotes' = nNotes + 1
            /\ lastOp' = [lastOp EXCEPT !.status = 201, !.plan = nPlans + 1,
                                        !.notified = nPlans + 1]
            /\ UNCHANGED <<items, nItems>>
       ELSE /\ lastOp' = Answer
            /\ UNCHANGED <<plans, cats, items, notes, nPlans, nCats, nItems, nNotes>>

\* ================================================ concurrent transactions
\* The store calls above, one statement per step, for callers that run at the
\* same time on connections Txs.  The database runs them READ COMMITTED (the
\* code opens every transaction with the default options): a statement reads
\* the rows committed when it starts, a row lock taken by SELECT ... FOR
\* UPDATE or by an UPDATE is held until the transaction ends, and a statement
\* that meets a locked row waits for the holder to end.
\*
\* txs[t] is the call running on connection t:
\*   pc       idle, done, or the statement the call is about to run
\*   op       ItemCreate, ItemUpdate or one of ReorderOps
\*   parent   the plan whose budget row the call locks, or the parent a
\*            Reorder resolved
\*   item     the item an Update changes; the category a Create inserts into
\*   amt      the amount sent by the caller
\*   cur      i.amount_cents as read by Update's first statement
\*   ids      the list of a Reorder
\*   todo     rows the running bulk UPDATE has still to visit
\*   writes   rows the bulk UPDATE has changed (and holds locked)
\*   affected its row count
\*   raced    a child of the parent was deleted after the Reorder's count
\*            checks
\*   churn    a child of the parent was deleted since the call began
\*   full     the list was exactly the parent's children when the call began
\*   result   what the call returned (once done)
\*   want     the is_completed value of a Toggle: "nil", "true" or "false"
\*   seen     i.is_completed as read by Toggle's SELECT ... FOR UPDATE
IdleTx ==
    [pc |-> "idle", op |-> "none", u |-> NoUser, parent |-> 0, item |-> 0,
     amt |-> 0, cur |-> 0, ids |-> <<>>, todo |-> {}, writes |-> {},
     affected |-> 0, raced |-> FALSE, churn |-> FALSE, full |-> FALSE,
     want |-> "nil", seen |-> FALSE, result |-> OK]

ErrDeadlock == "deadlock detected"

\* the rows a Reorder of kind op works on, and the children of parent among them
RowsOf(op) ==
    IF op = "ItemReorder" THEN items
    ELSE IF op = "NoteReorder" THEN notes
    ELSE cats

ChildrenOf(op, parent) ==
    IF op = "ItemReorder" THEN ItemsOfCat(parent)
    ELSE IF op = "NoteReorder" THEN NotesOfPlan(parent)
    ELSE CatsOfPlan(parent)

\* return ErrInvalid (items, notes) / return ErrNotFound (categories) after
\* the RowsAffected comparison
MismatchError(op) == IF op = "ReorderCategories" THEN ErrNotFound ELSE ErrInvalid

\* connection t is the first one of the pool that runs no call
Free(t) ==
    /\ txs[t].pc \in {"idle", "done"}
    /\ \A o \in Txs : o < t => txs[o].pc \notin {"idle", "done"}

\* the call on t has returned res; of its record the result is kept, the kind
\* and parent, what happened to the parent meanwhile, and the list if it was
\* applied
Ended(t, res) ==
    [IdleTx EXCEPT !.pc = "done", !.result = res, !.op = txs[t].op,
                   !.parent = txs[t].parent, !.full = txs[t].full,
                   !.raced = txs[t].raced, !.churn = txs[t].churn,
                   !.ids = IF res = OK THEN txs[t].ids ELSE <<>>]

\* the budget row of plan p is locked FOR UPDATE by another connection
PlanLockedByOther(p, t) ==
    \E o \in Txs \ {t} : txs[o].pc = "locked" /\ txs[o].parent = p

\* row r of the table of op was changed by a bulk UPDATE of another
\* connection that has not ended
RowLockedByOther(op, r, t) ==
    \E o \in Txs \ {t} : txs[o].pc = "updating" /\ txs[o].op = op /\ r \in txs[o].writes

\* ------------------------------------------------ ItemRepository.Create, by statement
\* lockPlanBudget starts: SELECT budget_cents ... FOR UPDATE
TxCreateBegin(t, u, p, c, amt) ==
    /\ Free(t)
    /\ nTx < MaxTx
    /\ nTx' = nTx + 1
    /\ txs' = [txs EXCEPT ![t] =
                 IF PlanOwnedBy(u, p)
                 THEN [IdleTx EXCEPT !.pc = "lockwait", !.op = "ItemCreate", !.u = u,
                                     !.parent = p, !.item = c, !.amt = amt]
                 ELSE [IdleTx EXCEPT !.pc = "done", !.op = "ItemCreate",
                                     !.result = ErrNotFound]]
    /\ UNCHANGED ledgerVars

\* the row lock on the plan is granted once no other transaction holds it
TxLock(t) ==
    /\ txs[t].pc = "lockwait"
    /\ ~PlanLockedByOther(txs[t].parent, t)
    /\ txs' = [txs EXCEPT ![t].pc = "locked"]
    /\ UNCHANGED <<ledgerVars, nTx>>

\* ensureCategoryInPlan, sumPlanAmount, the check, the INSERT and the commit
TxCreateBody(t) ==
    LET x == txs[t]
        res == ItemCreateResult(x.u, x.parent, x.item, x.amt)
    IN
    /\ x.pc = "locked"
    /\ x.op = "ItemCreate"
    /\ res = OK => nItems < MaxItems
    /\ txs' = [txs EXCEPT ![t] = Ended(t, res)]
    /\ IF res = OK
       THEN /\ items' = MapPut(items, nItems + 1,
                               [cat |-> x.item, amount |-> x.amt, done |-> FALSE,
                                pos |-> MaxOrder(items, ItemsOfCat(x.item)) + 1])
            /\ nItems' = nItems + 1
       ELSE UNCHANGED <<items, nItems>>
    /\ UNCHANGED <<plans, cats, notes, nPlans, nCats, nNotes, lastOp, nTx>>

\* ------------------------------------------------ ItemRepository.Update, by statement
\* SELECT p.id, p.budget_cents, i.amount_cents ... FOR UPDATE OF p starts:
\* it reads the item as committed now, and then asks for the plan's row lock
TxUpdateBegin(t, u, i, amt) ==
    /\ Free(t)
    /\ nTx < MaxTx
    /\ nTx' = nTx + 1
    /\ txs' = [txs EXCEPT ![t] =
                 IF ItemOwnedBy(u, i)
                 THEN [IdleTx EXCEPT !.pc = "lockwait", !.op = "ItemUpdate", !.u = u,
                                     !.parent = cats[items[i].cat].plan, !.item = i,
                                     !.amt = amt, !.cur = items[i].amount]
                 ELSE [IdleTx EXCEPT !.pc = "done", !.op = "ItemUpdate",
                                     !.result = ErrNotFound]]
    /\ UNCHANGED ledgerVars

TxUpdateResult(t) ==
    LET x == txs[t] IN
    IF ~FitsInt64(sumPlanAmount(x.parent)) THEN ErrOther
    ELSE IF NewTotal(sumPlanAmount(x.parent), x.cur, x.amt) > plans[x.parent].ceiling
         THEN ErrBudgetExceeded
    ELSE IF x.item \notin DOMAIN items THEN ErrOther
    ELSE OK

\* sumPlanAmount, the check, the UPDATE and the commit
TxUpdateBody(t) ==
    LET x == txs[t]
        res == TxUpdateResult(t)
    IN
    /\ x.pc = "locked"
    /\ x.op = "ItemUpdate"
    /\ txs' = [txs EXCEPT ![t] = Ended(t, res)]
    /\ items' = IF res = OK THEN [items EXCEPT ![x.item].amount = x.amt] ELSE items
    /\ UNCHANGED <<plans, cats, notes, nPlans, nCats, nItems, nNotes, lastOp, nTx>>

\* ------------------------------------------------ the Reorder protocol, by statement
\* the parent a Reorder resolves from its anchor a (an item, a note, or for
\* the categories the plan itself), 0 when there is none for this user
ResolveParent(op, u, a) ==
    IF op = "ItemReorder" THEN ItemAnchorCat(u, a)
    ELSE IF op = "NoteReorder" THEN NoteAnchorPlan(u, a)
    ELSE IF PlanOwnedBy(u, a) THEN a ELSE 0

\* the empty-list test (items and notes) and the anchor query
TxReorderBegin(t, op, u, a, ids) ==
    LET parent == ResolveParent(op, u, a)
        res == IF op # "ReorderCategories" /\ Len(ids) = 0 THEN ErrInvalid
               ELSE IF parent = 0 THEN ErrNotFound
               ELSE OK
    IN
    /\ Free(t)
    /\ nTx < MaxTx
    /\ nTx' = nTx + 1
    /\ txs' = [txs EXCEPT ![t] =
                 IF res = OK
                 THEN [IdleTx EXCEPT !.pc = "begun", !.op = op, !.u = u,
                                     !.parent = parent, !.ids = ids,
                                     !.full = /\ Range(ids) = ChildrenOf(op, parent)
                                              /\ Len(ids) = Cardinality(Range(ids))]
                 ELSE [IdleTx EXCEPT !.pc = "done", !.op = op, !.result = res]]
    /\ UNCHANGED ledgerVars

\* SELECT COUNT(*) ... WHERE parent = $1 AND id = ANY($2)
TxReorderCount(t) ==
    LET x == txs[t]
        count == Cardinality({r \in ChildrenOf(x.op, x.parent) : r \in Range(x.ids)})
    IN
    /\ x.pc = "begun"
    /\ txs' = [txs EXCEPT ![t] =
                 IF count # Len(x.ids) THEN Ended(t, ErrInvalid)
                 ELSE [x EXCEPT !.pc = "counted"]]
    /\ UNCHANGED <<ledgerVars, nTx>>

\* SELECT COUNT(*) ... WHERE parent = $1
TxReorderTotal(t) ==
    LET x == txs[t]
        total == Cardinality(ChildrenOf(x.op, x.parent))
    IN
    /\ x.pc = "counted"
    /\ txs' = [txs EXCEPT ![t] =
                 IF ~TotalMatches(total, Len(x.ids)) THEN Ended(t, ErrInvalid)
                 ELSE [x EXCEPT !.pc = "checked"]]
    /\ UNCHANGED <<ledgerVars, nTx>>

\* the bulk UPDATE starts: it will visit the rows of the parent, as committed
\* now, that the list names
TxReorderUpdateStart(t) ==
    LET x == txs[t] IN
    /\ x.pc = "checked"
    /\ txs' = [txs EXCEPT ![t] =
                 [x EXCEPT !.pc = "updating",
                           !.todo = {r \in ChildrenOf(x.op, x.parent) : r \in Range(x.ids)}]]
    /\ UNCHANGED <<ledgerVars, nTx>>

\* the bulk UPDATE visits row r: a row deleted meanwhile is passed over, a row
\* changed by a transaction that has not ended is waited for, any other row
\* is changed (and stays locked)
TxReorderUpdateRow(t, r) ==
    LET x == txs[t] IN
    /\ x.pc = "updating"
    /\ r \in x.todo
    /\ IF r \notin ChildrenOf(x.op, x.parent)
       THEN txs' = [txs EXCEPT ![t].todo = x.todo \ {r}]
       ELSE /\ ~RowLockedByOther(x.op, r, t)
            /\ txs' = [txs EXCEPT ![t] =
                         [x EXCEPT !.todo = x.todo \ {r},
                                   !.writes = x.writes \cup {r},
                                   !.affected = x.affected + 1]]
    /\ UNCHANGED <<ledgerVars, nTx>>

\* the rows of kind op become rows
SetRows(op, rows) ==
    /\ items' = IF op = "ItemReorder" THEN rows ELSE items
    /\ notes' = IF op = "NoteReorder" THEN rows ELSE notes
    /\ cats' = IF op = "ReorderCategories" THEN rows ELSE cats

\* a committed row count that accepts any number of changed rows
AffectedMatchesAlways(affected, n) == TRUE

\* if cmd.RowsAffected() != int64(len(ids)) { return ... }
AffectedMatches(affected, n) == affected = n

\* the RowsAffected comparison, then the commit (or the deferred Rollback)
TxReorderFinish(t) ==
    LET x == txs[t]
        res == IF AffectedMatches(x.affected, Len(x.ids)) THEN OK ELSE MismatchError(x.op)
    IN
    /\ x.pc = "updating"
    /\ x.todo = {}
    /\ txs' = [txs EXCEPT ![t] = Ended(t, res)]
    /\ SetRows(x.op, IF res = OK THEN Reposition(RowsOf(x.op), x.writes, x.ids)
                     ELSE RowsOf(x.op))
    /\ UNCHANGED <<plans, nPlans, nCats, nItems, nNotes, lastOp, nTx>>

\* the bulk UPDATE of t cannot go on: every row left is held by another
\* transaction
Stuck(t) ==
    /\ txs[t].pc = "updating"
    /\ txs[t].todo # {}
    /\ \A r \in txs[t].todo :
           r \in ChildrenOf(txs[t].op, txs[t].parent) /\ RowLockedByOther(txs[t].op, r, t)

\* two bulk UPDATEs wait for each other: the database ends one of them with
\* an error, and its changes are rolled back
TxDeadlock(t) ==
    /\ Stuck(t)
    /\ \E o \in Txs \ {t} : Stuck(o) /\ txs[o].op = txs[t].op
    /\ txs' = [txs EXCEPT ![t] = Ended(t, ErrDeadlock)]
    /\ UNCHANGED <<ledgerVars, nTx>>

\* ------------------------------------------------ deletes beside running transactions
\* the running Reorders of the parent that now lost the child r: raced when
\* their count checks are over, churn in any case
LostChild(op, parent) ==
    [t \in Txs |->
        IF txs[t].op = op /\ txs[t].parent = parent /\ txs[t].pc # "idle"
        THEN [txs[t] EXCEPT !.churn = TRUE,
                            !.raced = @ \/ txs[t].pc \in {"checked", "updating"}]
        ELSE txs[t]]

\* ItemRepository.Delete: the DELETE waits for a transaction that changed the row
TxItemDelete(u, i) ==
    /\ ~RowLockedByOther("ItemReorder", i, 0)
    /\ ItemDelete(u, i)
    /\ txs' = IF ItemOwnedBy(u, i) THEN LostChild("ItemReorder", items[i].cat) ELSE txs
    /\ UNCHANGED nTx

\* NoteRepository.Delete, likewise
TxNoteDelete(u, n) ==
    /\ ~RowLockedByOther("NoteReorder", n, 0)
    /\ NoteDelete(u, n)
    /\ txs' = IF NoteOwnedBy(u, n) THEN LostChild("NoteReorder", notes[n].plan) ELSE txs
    /\ UNCHANGED nTx

\* PlanRepository.Delete: the DELETE and its cascade wait for every
\* transaction that holds the plan's budget row or changed a row of the plan
TxPlanDelete(u, p) ==
    /\ ~PlanLockedByOther(p, 0)
    /\ \A c \in CatsOfPlan(p) : ~RowLockedByOther("ReorderCategories", c, 0)
    /\ \A i \in ItemsOfPlan(p) : ~RowLockedByOther("ItemReorder", i, 0)
    /\ \A n \in NotesOfPlan(p) : ~RowLockedByOther("NoteReorder", n, 0)
    /\ PlanDelete(u, p)
    /\ txs' = IF ~PlanOwnedBy(u, p) THEN txs
              ELSE [t \in Txs |->
                       IF /\ txs[t].pc # "idle"
                          /\ \/ txs[t].op \in {"ReorderCategories", "NoteReorder"} /\ txs[t].parent = p
                             \/ txs[t].op = "ItemReorder" /\ txs[t].parent \in CatsOfPlan(p)
                       THEN [txs[t] EXCEPT !.churn = TRUE,
                                           !.raced = @ \/ txs[t].pc \in {"checked", "updating"}]
                       ELSE txs[t]]
    /\ UNCHANGED nTx

\* no call is running
\* no Stream request has arrived; the notes' kinds are not followed
NoUpdate == [amt |-> 0, cur |-> 0, total |-> 0, ceiling |-> 0]

\* no call outside the hub and the ledger is under way
OtherInit ==
    /\ copyCall = [title |-> <<>>, maxRunes |-> 0, result |-> <<>>, returned |-> FALSE]
    /\ updateReq = NoUpdate
    /\ lastEvent = <<>>
    /\ overlap = {} /\ tokens = <<>>
    /\ refreshes = <<>>
    /\ dbOpen = <<>>

ExtraInit ==
    /\ conns = <<>>
    /\ noteInfo = <<>>
    /\ aiGenerated = <<>>
    /\ OtherInit

TxInit ==
    /\ txs = [t \in Txs |-> IdleTx]
    /\ nTx = 0

\* ------------------------------------------------ initial state and inputs
\* an empty database
LedgerInit ==
    /\ plans = <<>>
    /\ cats = <<>>
    /\ items = <<>>
    /\ notes = <<>>
    /\ nPlans = 0
    /\ nCats = 0
    /\ nItems = 0
    /\ nNotes = 0
    /\ lastOp = Outcome("none", OK)

PlainCat == [blank |-> FALSE, items |-> <<>>]

CatWith(amt) == [blank |-> FALSE, items |-> <<[blank |-> FALSE, amount |-> amt, done |-> FALSE]>>]

\* plans of no, one or two empty categories
OrderPlanInputs ==
    {[ceiling |-> Ceiling, cats |-> cs, notes |-> <<>>] :
         cs \in {<<>>, <<PlainCat>>, <<PlainCat, PlainCat>>}}

\* a category of items of the given amounts
CatOf(amts) ==
    [blank |-> FALSE,
     items |-> [j \in DOMAIN amts |-> [blank |-> FALSE, amount |-> amts[j], done |-> FALSE]]]

\* pairs of amounts: within the ceiling, above it, and above the int64 range
AmountPairs == {<<4, 5>>, <<5, 6>>, <<Int64Max, 4>>}

\* plans of one category, empty or with one or two items, and plans that
\* break one rule each: no category, an untitled category, an untitled item,
\* an amount of 0, an empty note
BudgetPlanInputs ==
    {[ceiling |-> Ceiling, cats |-> cs, notes |-> <<>>] :
         cs \in {<<>>, <<PlainCat>>, <<[PlainCat EXCEPT !.blank = TRUE]>>,
                 <<[CatWith(4) EXCEPT !.items[1].blank = TRUE]>>, <<CatWith(0)>>}
                 \cup {<<CatWith(amt)>> : amt \in Amounts}
                 \cup {<<CatOf(amts)>> : amts \in AmountPairs}}
    \cup {[ceiling |-> Ceiling, cats |-> <<PlainCat>>, notes |-> <<[blank |-> b]>>] :
              b \in BOOLEAN}

\* the rows created so far count against MaxRows
RowsLeft(k) == nPlans + nItems + nNotes + k <= MaxRows

OrderNext ==
    \/ \E u \in Users, in \in OrderPlanInputs :
           /\ RowsLeft(1)
           /\ PlanCreateWithDetails(u, in) /\ UNCHANGED <<hubVars, txVars, extraVars>>
    \/ \E u \in Users, p \in PlanIds, c \in CatIds, amt \in SmallAmounts :
           /\ RowsLeft(1)
           /\ ItemCreate(u, p, c, amt, FALSE) /\ UNCHANGED <<hubVars, txVars, extraVars>>
    \/ \E u \in Users, i \in ItemIds :
           ItemDelete(u, i) /\ UNCHANGED <<hubVars, txVars, extraVars>>
    \/ \E u \in Users, a \in ItemIds, ids \in IdLists(ItemIds) :
           ItemReorder(u, a, ids) /\ UNCHANGED <<hubVars, txVars, extraVars>>
    \/ \E u \in Users, p \in PlanIds :
           /\ RowsLeft(1)
           /\ NoteCreate(u, p) /\ UNCHANGED <<hubVars, txVars, extraVars>>
    \/ \E u \in Users, a \in NoteIds, ids \in IdLists(NoteIds) :
           NoteReorder(u, a, ids) /\ UNCHANGED <<hubVars, txVars, extraVars>>
    \/ \E u \in Users, p \in PlanIds, ids \in IdLists(CatIds) :
           ReorderCategories(u, p, ids) /\ UNCHANGED <<hubVars, txVars, extraVars>>

\* the store under sequential callers that create, delete and reorder rows
\* of small amounts; the hub is not touched
StoreInit == NewHub /\ LedgerInit /\ TxInit /\ ExtraInit

SpecOrder == StoreInit /\ [][OrderNext]_vars

BudgetNext ==
    \/ \E u \in Users, in \in BudgetPlanInputs :
           /\ RowsLeft(1 + Len(FlatItems(in.cats, 1)))
           /\ PlanCreateWithDetails(u, in) /\ UNCHANGED <<hubVars, txVars, extraVars>>
    \/ \E u \in Users, p \in PlanIds, c \in CatIds, amt \in Amounts, done \in BOOLEAN :
           /\ RowsLeft(1)
           /\ ItemCreate(u, p, c, amt, done) /\ UNCHANGED <<hubVars, txVars, extraVars>>
    \/ \E u \in Users, i \in ItemIds :
           ItemDelete(u, i) /\ UNCHANGED <<hubVars, txVars, extraVars>>
    \/ \E u \in Users, i \in ItemIds, isCompleted \in {"nil", "true", "false"} :
           ItemToggle(u, i, isCompleted) /\ UNCHANGED <<hubVars, txVars, extraVars>>
    \/ \E u \in Users, ids \in DistinctLists(ItemIds) :
           ItemReorder(u, ids[1], ids) /\ UNCHANGED <<hubVars, txVars, extraVars>>
    \/ \E u \in Users, p \in PlanIds :
           PlanGet(u, p) /\ UNCHANGED <<hubVars, txVars, extraVars>>

\* the store under sequential callers that create, delete, toggle, reorder
\* and read items of any amount; the hub is not touched
SpecBudget == StoreInit /\ [][BudgetNext]_vars

\* ------------------------------------------------ concurrent callers
\* amounts and ceiling of the concurrent budget calls: none of their sums
\* leaves the int64 range
TxCeilings == {4}
TxAmounts == {1, 3, 5}

\* the database after CreateWithDetails of a plan of user A with one
\* category holding one item of amount 3
BudgetTxInit ==
    /\ NewHub
    /\ TxInit /\ ExtraInit
    /\ \E c \in TxCeilings : plans = <<[owner |-> "A", ceiling |-> c]>>
    /\ cats = <<[plan |-> 1, pos |-> 0]>>
    /\ items = <<[cat |-> 1, amount |-> 3, done |-> FALSE, pos |-> 0]>>
    /\ notes = <<>>
    /\ nPlans = 1
    /\ nCats = 1
    /\ nItems = 1
    /\ nNotes = 0
    /\ lastOp = Outcome("CreateWithDetails", OK)

BudgetTxNext ==
    \/ \E t \in Txs, u \in Users, p \in PlanIds, c \in CatIds, amt \in TxAmounts :
           TxCreateBegin(t, u, p, c, amt) /\ UNCHANGED <<hubVars, extraVars>>
    \/ \E t \in Txs, u \in Users, i \in ItemIds, amt \in TxAmounts :
           TxUpdateBegin(t, u, i, amt) /\ UNCHANGED <<hubVars, extraVars>>
    \/ \E t \in Txs : TxLock(t) /\ UNCHANGED <<hubVars, extraVars>>
    \/ \E t \in Txs : TxCreateBody(t) /\ UNCHANGED <<hubVars, extraVars>>
    \/ \E t \in Txs : TxUpdateBody(t) /\ UNCHANGED <<hubVars, extraVars>>

\* item Create and Update calls running at the same time
SpecBudgetTx == BudgetTxInit /\ [][BudgetTxNext]_vars

\* the database after CreateWithDetails of a plan of user A: one with a
\* category of two items, one with a category and two notes, one with two
\* categories
ItemsDb ==
    /\ cats = <<[plan |-> 1, pos |-> 0]>>
    /\ items = [i \in 1..2 |-> [cat |-> 1, amount |-> 1, done |-> FALSE, pos |-> i - 1]]
    /\ notes = <<>>

NotesDb ==
    /\ cats = <<[plan |-> 1, pos |-> 0]>>
    /\ items = <<>>
    /\ notes = [n \in 1..2 |-> [plan |-> 1, pos |-> n - 1]]

CatsDb ==
    /\ cats = [c \in 1..2 |-> [plan |-> 1, pos |-> c - 1]]
    /\ items = <<>>
    /\ notes = <<>>

ReorderTxInit ==
    /\ NewHub
    /\ TxInit /\ ExtraInit
    /\ plans = <<[owner |-> "A", ceiling |-> Ceiling]>>
    /\ ItemsDb \/ NotesDb \/ CatsDb
    /\ nPlans = 1
    /\ nCats = Len(cats)
    /\ nItems = Len(items)
    /\ nNotes = Len(notes)
    /\ lastOp = Outcome("CreateWithDetails", OK)

ReorderTxNext ==
    \/ \E t \in Txs, u \in Users, ids \in DistinctLists(1..2) :
           TxReorderBegin(t, "ItemReorder", u, ids[1], ids) /\ UNCHANGED <<hubVars, extraVars>>
    \/ \E t \in Txs, u \in Users, ids \in DistinctLists(1..2) :
           TxReorderBegin(t, "NoteReorder", u, ids[1], ids) /\ UNCHANGED <<hubVars, extraVars>>
    \/ \E t \in Txs, u \in Users, ids \in DistinctLists(1..2) :
           TxReorderBegin(t, "ReorderCategories", u, 1, ids) /\ UNCHANGED <<hubVars, extraVars>>
    \/ \E t \in Txs : TxReorderCount(t) /\ UNCHANGED <<hubVars, extraVars>>
    \/ \E t \in Txs : TxReorderTotal(t) /\ UNCHANGED <<hubVars, extraVars>>
    \/ \E t \in Txs : TxReorderUpdateStart(t) /\ UNCHANGED <<hubVars, extraVars>>
    \/ \E t \in Txs, r \in 1..2 : TxReorderUpdateRow(t, r) /\ UNCHANGED <<hubVars, extraVars>>
    \/ \E t \in Txs : TxReorderFinish(t) /\ UNCHANGED <<hubVars, extraVars>>
    \/ \E t \in Txs : TxDeadlock(t) /\ UNCHANGED <<hubVars, extraVars>>
    \/ \E u \in Users, i \in 1..2 : TxItemDelete(u, i) /\ UNCHANGED <<hubVars, extraVars>>
    \/ \E u \in Users, n \in 1..2 : TxNoteDelete(u, n) /\ UNCHANGED <<hubVars, extraVars>>
    \/ \E u \in Users : TxPlanDelete(u, 1) /\ UNCHANGED <<hubVars, extraVars>>

\* Reorder calls running at the same time, beside deletes
SpecReorderTx == ReorderTxInit /\ [][ReorderTxNext]_vars

\* ------------------------------------------------ two owners, one store
\* user "A" has plan 1 with category 1, item 1 and note 1; user "B" has
\* plan 2 with category 2
IsolationInit ==
    /\ NewHub
    /\ TxInit /\ ExtraInit
    /\ plans = <<[owner |-> "A", ceiling |-> Ceiling], [owner |-> "B", ceiling |-> Ceiling]>>
    /\ cats = <<[plan |-> 1, pos |-> 0], [plan |-> 2, pos |-> 0]>>
    /\ items = <<[cat |-> 1, amount |-> 4, done |-> FALSE, pos |-> 0]>>
    /\ notes = <<[plan |-> 1, pos |-> 0]>>
    /\ nPlans = 2 /\ nCats = 2 /\ nItems = 1 /\ nNotes = 1
    /\ lastOp = Outcome("none", OK)

\* one item or note more may be created
ChildrenLeft == nItems + nNotes < MaxItems

\* every store call, by either user, on any id; ordering payloads are not
\* empty (the handlers require min=1) and start with their anchor
IsolationNext ==
    \/ \E u \in Users, p \in PlanIds, c \in CatIds :
           ChildrenLeft /\ ItemCreate(u, p, c, 4, FALSE) /\ UNCHANGED <<hubVars, txVars, extraVars>>
    \/ \E u \in Users, i \in ItemIds :
           ItemUpdate(u, i, 6) /\ UNCHANGED <<hubVars, txVars, extraVars>>
    \/ \E u \in Users, i \in ItemIds :
           ItemUpdateColor(u, i) /\ UNCHANGED <<hubVars, txVars, extraVars>>
    \/ \E u \in Users, i \in ItemIds :
           ItemDelete(u, i) /\ UNCHANGED <<hubVars, txVars, extraVars>>
    \/ \E u \in Users, i \in ItemIds :
           ItemToggle(u, i, "nil") /\ UNCHANGED <<hubVars, txVars, extraVars>>
    \/ \E u \in Users, ids \in DistinctLists(ItemIds) :
           ItemReorder(u, ids[1], ids) /\ UNCHANGED <<hubVars, txVars, extraVars>>
    \/ \E u \in Users, p \in PlanIds :
           ChildrenLeft /\ NoteCreate(u, p) /\ UNCHANGED <<hubVars, txVars, extraVars>>
    \/ \E u \in Users, n \in NoteIds :
           NoteDelete(u, n) /\ UNCHANGED <<hubVars, txVars, extraVars>>
    \/ \E u \in Users, ids \in DistinctLists(NoteIds) :
           NoteReorder(u, ids[1], ids) /\ UNCHANGED <<hubVars, txVars, extraVars>>
    \/ \E u \in Users, p \in PlanIds, ids \in DistinctLists(CatIds) :
           ReorderCategories(u, p, ids) /\ UNCHANGED <<hubVars, txVars, extraVars>>
    \/ \E u \in Users, p \in PlanIds :
           PlanGet(u, p) /\ UNCHANGED <<hubVars, txVars, extraVars>>
    \/ \E u \in Users, p \in PlanIds :
           PlanDelete(u, p) /\ UNCHANGED <<hubVars, txVars, extraVars>>
    \/ \E u \in Users, p \in PlanIds :
           Duplicate(u, p) /\ UNCHANGED <<hubVars, txVars, extraVars>>

SpecIsolation == IsolationInit /\ [][IsolationNext]_vars

\* ------------------------------------------------ requests, one at a time
\* user "A" has plan 1 with category 1 and item 1; user "B" has no plan
HandlerInit ==
    /\ NewHub
    /\ TxInit /\ ExtraInit
    /\ plans = <<[owner |-> "A", ceiling |-> Ceiling]>>
    /\ cats = <<[plan |-> 1, pos |-> 0]>>
    /\ items = <<[cat |-> 1, amount |-> 4, done |-> FALSE, pos |-> 0]>>
    /\ notes = <<>>
    /\ nPlans = 1 /\ nCats = 1 /\ nItems = 1 /\ nNotes = 0
    /\ lastOp = Outcome("none", OK)

\* the trees AI generation hands to CreateWithDetails: one category, one
\* category with an item above the ceiling, and no category
GeneratedPlans ==
    {[ceiling |-> Ceiling, cats |-> cs, notes |-> <<>>] :
         cs \in {<<PlainCat>>, <<CatWith(Int64Max)>>, <<>>}}

\* one item or note may be created through the item and note handlers
HandlerRowsLeft == nItems + nNotes < MaxPlans

\* the ids requests name: those of the rows there can be, and one more
RequestIds == 1..MaxPlans

\* a request is taken when the one before it is answered
Idle == ~Pending

\* the store call of each request, then the rest of its handler.  "B"
\* sends every request but owns no plan.
HandlerNext ==
    \/ \E u \in Users, amt \in {6, 7} :
           /\ Idle /\ HandlerRowsLeft /\ ItemCreate(u, 1, 1, amt, TRUE)
           /\ UNCHANGED <<hubVars, txVars, extraVars>>
    \/ \E u \in Users, i \in RequestIds, amt \in {6, 11} :
           Idle /\ ItemUpdate(u, i, amt) /\ UNCHANGED <<hubVars, txVars, extraVars>>
    \/ \E u \in Users, i \in RequestIds :
           Idle /\ ItemUpdateColor(u, i) /\ UNCHANGED <<hubVars, txVars, extraVars>>
    \/ \E u \in Users, i \in RequestIds :
           Idle /\ ItemDelete(u, i) /\ UNCHANGED <<hubVars, txVars, extraVars>>
    \/ \E u \in Users, i \in RequestIds :
           Idle /\ ItemToggle(u, i, "nil") /\ UNCHANGED <<hubVars, txVars, extraVars>>
    \/ \E u \in Users, ids \in DistinctLists(RequestIds) :
           Idle /\ ItemReorder(u, ids[1], ids) /\ UNCHANGED <<hubVars, txVars, extraVars>>
    \/ \E u \in Users, p \in RequestIds :
           /\ Idle /\ HandlerRowsLeft /\ NoteCreate(u, p)
           /\ UNCHANGED <<hubVars, txVars, extraVars>>
    \/ \E u \in Users, n \in RequestIds :
           Idle /\ NoteDelete(u, n) /\ UNCHANGED <<hubVars, txVars, extraVars>>
    \/ \E u \in Users, ids \in DistinctLists(RequestIds) :
           Idle /\ NoteReorder(u, ids[1], ids) /\ UNCHANGED <<hubVars, txVars, extraVars>>
    \/ \E u \in Users, p \in RequestIds, ids \in DistinctLists(RequestIds) :
           Idle /\ ReorderCategories(u, p, ids) /\ UNCHANGED <<hubVars, txVars, extraVars>>
    \/ \E u \in Users, p \in RequestIds :
           Idle /\ PlanGet(u, p) /\ UNCHANGED <<hubVars, txVars, extraVars>>
    \/ Idle /\ PlanCreate("A", Ceiling) /\ UNCHANGED <<hubVars, txVars, extraVars>>
    \/ \E u \in Users, p \in RequestIds :
           Idle /\ PlanUpdate(u, p, Ceiling - 1) /\ UNCHANGED <<hubVars, txVars, extraVars>>
    \/ \E u \in Users, p \in RequestIds :
           Idle /\ PlanDelete(u, p) /\ UNCHANGED <<hubVars, txVars, extraVars>>
    \/ \E u \in Users, p \in RequestIds :
           Idle /\ Duplicate(u, p) /\ UNCHANGED <<hubVars, txVars, extraVars>>
    \/ \E in \in GeneratedPlans :
           /\ Idle /\ nPlans < MaxPlans /\ nNotes < MaxNotes
           /\ PlanCreateWithDetails("A", in)
           /\ UNCHANGED <<hubVars, txVars, extraVars>>
    \/ Respond /\ UNCHANGED <<hubVars, txVars, extraVars>>

SpecHandlers == HandlerInit /\ [][HandlerNext]_vars

\* ------------------------------------------------------------ specifications
HubNext ==
    \/ \E p \in Procs, u \in Users : SubscribeCall(p, u) /\ UNCHANGED <<ledgerVars, txVars, extraVars>>
    \/ \E p \in Procs : SubscribeLock(p) /\ UNCHANGED <<ledgerVars, txVars, extraVars>>
    \/ \E p \in Procs : SubscribeReturn(p) /\ UNCHANGED <<ledgerVars, txVars, extraVars>>
    \/ \E p \in Procs, ch \in Chans : UnsubscribeCall(p, ch) /\ UNCHANGED <<ledgerVars, txVars, extraVars>>
    \/ \E p \in Procs : UnsubscribeLock(p) /\ UNCHANGED <<ledgerVars, txVars, extraVars>>
    \/ \E p \in Procs : UnsubscribeReturn(p) /\ UNCHANGED <<ledgerVars, txVars, extraVars>>
    \/ \E p \in Procs, u \in Users : PublishCall(p, u) /\ UNCHANGED <<ledgerVars, txVars, extraVars>>
    \/ \E p \in Procs : PublishRLock(p) /\ UNCHANGED <<ledgerVars, txVars, extraVars>>
    \/ \E p \in Procs, ch \in Chans : PublishSend(p, ch) /\ UNCHANGED <<ledgerVars, txVars, extraVars>>
    \/ \E p \in Procs : PublishDone(p) /\ UNCHANGED <<ledgerVars, txVars, extraVars>>
    \/ \E p \in Procs : PublishReturn(p) /\ UNCHANGED <<ledgerVars, txVars, extraVars>>
    \/ \E ch \in Chans : Receive(ch) /\ UNCHANGED <<ledgerVars, txVars, extraVars>>

\* the hub under concurrent callers; the store is not touched
Init == HubInit /\ LedgerInit /\ TxInit /\ ExtraInit

SpecHub == Init /\ [][HubNext]_vars

\* the steps inside a hub call that the goroutine takes by itself (the calls
\* themselves, and the consumers' reads, are up to the environment)
HubStep(p) ==
    /\ \/ SubscribeLock(p)
       \/ SubscribeReturn(p)
       \/ UnsubscribeLock(p)
       \/ UnsubscribeReturn(p)
       \/ PublishRLock(p)
       \/ (\E ch \in Chans : PublishSend(p, ch))
       \/ PublishDone(p)
       \/ PublishReturn(p)
    /\ UNCHANGED <<ledgerVars, txVars, extraVars>>

\* The Go scheduler runs every runnable goroutine, and a goroutine waiting in
\* Lock/RLock is woken when the mutex becomes free: weak fairness of each
\* goroutine's own steps.  Nothing is assumed of the consumers.
SpecHubFair ==
    Init /\ [][HubNext]_vars /\ \A p \in Procs : WF_vars(HubStep(p))

\* ================================================ NotificationHandler.Stream
\* One SSE request per element of ConnIds.  A request subscribes, writes the
\* connected record, then relays the events of its channel until the client
\* goes away, a write fails or the channel is closed; the deferred
\* unsubscribe runs when it returns.  The hub calls are taken whole here:
\* each runs under h.mu from its first read of the registry to its last
\* write.
\*
\* conns[k]:
\*   pc    new, subscribed (before the connected write), streaming (in the
\*         loop), leaving (returned, the deferred call not yet run), ended
\*   u     the user of the request
\*   ch    the channel Subscribe returned (0 = never subscribed)
\*   gone  the client has disconnected: ctx.Done() is closed, writes fail
\*   out   the records the handler passed to writeSSE, in order, each with
\*         the outcome of the write
MaxConns == 2

ConnIds == 1..MaxConns

IdleConn == [pc |-> "new", u |-> NoUser, ch |-> 0, gone |-> FALSE, out |-> <<>>]

ConnectedRecord(ok) == [type |-> "connected", event |-> 0, ok |-> ok]

EventRecord(e, ok) == [type |-> "event", event |-> e, ok |-> ok]

\* a handler that returns without running its deferred unsubscribe
StreamLeaveNoDefer(c) == [c EXCEPT !.pc = "ended"]

\* return nil: the deferred unsubscribe() is still to run
StreamLeave(c) == [c EXCEPT !.pc = "leaving"]

\* a handler that relays events before it has written connected
CanRelayEarly(c) == c.pc \in {"subscribed", "streaming"}

\* the for/select loop is entered after the connected write
CanRelay(c) == c.pc = "streaming"

\* auth.UserIDFromContext fails, or the writer is no http.Flusher: the
\* request is answered before Subscribe
StreamReject(k) ==
    /\ conns[k].pc = "new"
    /\ conns' = [conns EXCEPT ![k].pc = "ended"]
    /\ UNCHANGED <<hubVars, noteInfo, aiGenerated, otherVars>>

\* ch, unsubscribe := h.Hub.Subscribe(userID); defer unsubscribe()
StreamSubscribe(k, u) ==
    LET ch == MakeChan(chState) IN
    /\ conns[k].pc = "new"
    /\ \A j \in ConnIds : j < k => conns[j].pc # "new"
    /\ \E c \in Chans : chState[c] = "unmade"
    /\ chState' = [chState EXCEPT ![ch] = "open"]
    /\ chUser' = [chUser EXCEPT ![ch] = u]
    /\ subscribers' = RegisterSub(subscribers, u, ch)
    /\ returned' = returned \cup {ch}
    /\ conns' = [conns EXCEPT ![k].pc = "subscribed", ![k].u = u, ![k].ch = ch]
    /\ UNCHANGED <<mu, delivered, nrecv, unsubCalls, unsubDone, pc, pUser, pChan,
                   pEvent, pTodo, pSeen, calls, nextEvent, firstEvent, firstChan,
                   evUser, evProc, fanned, prior, noteInfo, aiGenerated, otherVars>>

\* _ = writeSSE(c, Event{Type: "connected", ...}); flusher.Flush()
StreamConnected(k) ==
    /\ conns[k].pc = "subscribed"
    /\ conns' = [conns EXCEPT ![k].pc = "streaming",
                              ![k].out = Append(@, ConnectedRecord(~conns[k].gone))]
    /\ UNCHANGED <<hubVars, noteInfo, aiGenerated, otherVars>>

\* the client closes the connection
ClientGone(k) ==
    /\ conns[k].pc \in {"subscribed", "streaming"}
    /\ ~conns[k].gone
    /\ conns' = [conns EXCEPT ![k].gone = TRUE]
    /\ UNCHANGED <<hubVars, noteInfo, aiGenerated, otherVars>>

\* case <-ctx.Done(): return nil
StreamDone(k) ==
    /\ conns[k].pc = "streaming"
    /\ conns[k].gone
    /\ conns' = [conns EXCEPT ![k] = StreamLeave(@)]
    /\ UNCHANGED <<hubVars, noteInfo, aiGenerated, otherVars>>

\* case event, ok := <-ch: a closed and empty channel gives !ok and the
\* handler returns; else writeSSE(c, event), and a write error returns
StreamRelay(k) ==
    LET c == conns[k]
        buf == Buf(c.ch)
    IN
    /\ CanRelay(c)
    /\ buf # <<>> \/ chState[c.ch] = "closed"
    /\ IF buf = <<>>
       THEN /\ conns' = [conns EXCEPT ![k] = StreamLeave(@)]
            /\ UNCHANGED nrecv
       ELSE /\ nrecv' = [nrecv EXCEPT ![c.ch] = @ + 1]
            /\ conns' = [conns EXCEPT ![k] =
                           LET wrote == [c EXCEPT !.out = Append(@, EventRecord(buf[1], ~c.gone))]
                           IN IF c.gone THEN StreamLeave(wrote) ELSE wrote]
    /\ UNCHANGED <<subscribers, mu, chState, chUser, delivered, returned, unsubCalls,
                   unsubDone, pc, pUser, pChan, pEvent, pTodo, pSeen, calls, nextEvent,
                   firstEvent, firstChan, evUser, evProc, fanned, prior, noteInfo, aiGenerated, otherVars>>

\* the deferred unsubscribe(): the closure of Subscribe, under h.mu
StreamUnsubscribe(k) ==
    LET c == conns[k] IN
    /\ c.pc = "leaving"
    /\ subscribers' = RemoveSub(subscribers, chUser[c.ch], c.ch)
    /\ chState' = [chState EXCEPT ![c.ch] = CloseChan(@)]
    /\ unsubCalls' = [unsubCalls EXCEPT ![c.ch] = @ + 1]
    /\ unsubDone' = unsubDone \cup {c.ch}
    /\ conns' = [conns EXCEPT ![k].pc = "ended"]
    /\ UNCHANGED <<mu, chUser, delivered, nrecv, returned, pc, pUser, pChan, pEvent,
                   pTodo, pSeen, calls, nextEvent, firstEvent, firstChan, evUser,
                   evProc, fanned, prior, noteInfo, aiGenerated, otherVars>>

\* Hub.Publish(userID, event) by a request handler: under the read lock the
\* event goes to every channel of the user that has room
HubPublish(u) ==
    LET e == nextEvent + 1 IN
    /\ nextEvent < MaxEvents
    /\ nextEvent' = e
    /\ evUser' = MapPut(evUser, e, u)
    /\ fanned' = fanned \cup {e}
    /\ delivered' = [ch \in Chans |->
                       IF ch \in Targets(subscribers, u) /\ TrySend(Len(Buf(ch))) = "send"
                       THEN Enqueue(delivered[ch], e)
                       ELSE delivered[ch]]
    /\ UNCHANGED <<subscribers, mu, chState, chUser, nrecv, returned, unsubCalls,
                   unsubDone, pc, pUser, pChan, pEvent, pTodo, pSeen, calls,
                   firstEvent, firstChan, evProc, prior, extraVars>>

StreamInit ==
    /\ NewHub
    /\ LedgerInit
    /\ TxInit
    /\ noteInfo = <<>>
    /\ conns = [k \in ConnIds |-> IdleConn]
    /\ aiGenerated = <<>>
    /\ OtherInit

StreamNext ==
    \/ \E k \in ConnIds : StreamReject(k) /\ UNCHANGED <<ledgerVars, txVars>>
    \/ \E k \in ConnIds, u \in Users : StreamSubscribe(k, u) /\ UNCHANGED <<ledgerVars, txVars>>
    \/ \E k \in ConnIds : StreamConnected(k) /\ UNCHANGED <<ledgerVars, txVars>>
    \/ \E k \in ConnIds : ClientGone(k) /\ UNCHANGED <<ledgerVars, txVars>>
    \/ \E k \in ConnIds : StreamDone(k) /\ UNCHANGED <<ledgerVars, txVars>>
    \/ \E k \in ConnIds : StreamRelay(k) /\ UNCHANGED <<ledgerVars, txVars>>
    \/ \E k \in ConnIds : StreamUnsubscribe(k) /\ UNCHANGED <<ledgerVars, txVars>>
    \/ \E u \in Users : HubPublish(u) /\ UNCHANGED <<ledgerVars, txVars>>

SpecStream == StreamInit /\ [][StreamNext]_vars

\* ------------------------------------------------ sort positions, one caller at a time
\* the categories of plan p as a reader lists them, turned round, and the
\* list without its first entry
CategoryLists(p) ==
    LET cur == ReadOrdered(cats, CatsOfPlan(p))
        n == Len(cur)
    IN IF n = 0 THEN {}
       ELSE {[k \in 1..n |-> cur[n + 1 - k]], Tail(cur)}

\* the plans of the default categories and of one or two given ones, their
\* items and notes: created, deleted and reordered by one caller at a time
PositionsNext ==
    \/ /\ RowsLeft(1)
       /\ PlanCreate("A", Ceiling) /\ UNCHANGED <<hubVars, txVars, extraVars>>
    \/ \E in \in OrderPlanInputs :
           /\ RowsLeft(1) /\ nPlans < MaxPlans
           /\ PlanCreateWithDetails("A", in) /\ UNCHANGED <<hubVars, txVars, extraVars>>
    \/ \E u \in Users, p \in PlanIds :
           Duplicate(u, p) /\ UNCHANGED <<hubVars, txVars, extraVars>>
    \/ \E u \in Users, p \in PlanIds : \E ids \in CategoryLists(p) :
           ReorderCategories(u, p, ids) /\ UNCHANGED <<hubVars, txVars, extraVars>>
    \/ \E u \in Users, p \in PlanIds, c \in CatIds, amt \in SmallAmounts :
           /\ RowsLeft(1)
           /\ ItemCreate(u, p, c, amt, FALSE) /\ UNCHANGED <<hubVars, txVars, extraVars>>
    \/ \E u \in Users, i \in ItemIds :
           ItemDelete(u, i) /\ UNCHANGED <<hubVars, txVars, extraVars>>
    \/ \E u \in Users, ids \in DistinctLists(ItemIds) :
           ItemReorder(u, ids[1], ids) /\ UNCHANGED <<hubVars, txVars, extraVars>>
    \/ \E u \in Users, p \in PlanIds :
           /\ RowsLeft(1)
           /\ NoteCreate(u, p) /\ UNCHANGED <<hubVars, txVars, extraVars>>
    \/ \E u \in Users, n \in NoteIds :
           NoteDelete(u, n) /\ UNCHANGED <<hubVars, txVars, extraVars>>
    \/ \E u \in Users, ids \in DistinctLists(NoteIds) :
           NoteReorder(u, ids[1], ids) /\ UNCHANGED <<hubVars, txVars, extraVars>>

SpecPositions == StoreInit /\ [][PositionsNext]_vars

\* ------------------------------------------------ ItemRepository.Toggle, by statement
MaxToggles == 3

\* a SELECT without FOR UPDATE: it waits for nobody
ItemLockedNever(i, t) == FALSE

\* row i of expense_items is locked by the SELECT ... FOR UPDATE of another
\* connection's Toggle that has not ended
ItemLockedByOther(i, t) ==
    \E o \in Txs \ {t} : txs[o].op = "ItemToggle" /\ txs[o].pc = "toggling" /\ txs[o].item = i

\* tx, err := r.db.Begin(ctx)
TxToggleBegin(t, u, i, isCompleted) ==
    /\ Free(t)
    /\ nTx < MaxToggles
    /\ nTx' = nTx + 1
    /\ txs' = [txs EXCEPT ![t] = [IdleTx EXCEPT !.pc = "select", !.op = "ItemToggle",
                                                !.u = u, !.item = i, !.want = isCompleted]]
    /\ UNCHANGED ledgerVars

\* SELECT i.is_completed ... WHERE i.id = $1 AND p.user_id = $2 FOR UPDATE:
\* the statement waits while another transaction holds the row, then reads
\* the row as committed and locks it; no row gives ErrNotFound
TxToggleSelect(t) ==
    LET x == txs[t] IN
    /\ x.pc = "select"
    /\ x.op = "ItemToggle"
    /\ ~ItemLockedByOther(x.item, t)
    /\ txs' = [txs EXCEPT ![t] =
                 IF ItemToggleResult(x.u, x.item) = OK
                 THEN [x EXCEPT !.pc = "toggling", !.seen = items[x.item].done]
                 ELSE [Ended(t, ErrNotFound) EXCEPT !.item = x.item, !.want = x.want]]
    /\ UNCHANGED <<ledgerVars, nTx>>

\* newValue from current and isCompleted; UPDATE expense_items SET
\* is_completed = $2 WHERE id = $1; Commit
TxToggleUpdate(t) ==
    LET x == txs[t] IN
    /\ x.pc = "toggling"
    /\ x.op = "ItemToggle"
    /\ items' = [items EXCEPT ![x.item].done = NewValue(x.seen, x.want)]
    /\ txs' = [txs EXCEPT ![t] = [Ended(t, OK) EXCEPT !.item = x.item, !.want = x.want,
                                                      !.seen = x.seen]]
    /\ UNCHANGED <<plans, cats, notes, nPlans, nCats, nItems, nNotes, lastOp, nTx>>

\* ItemRepository.Delete next to the Toggle calls: the DELETE waits for a
\* transaction that holds the row
TxToggleItemDelete(u, i) ==
    /\ \A o \in Txs : ~(txs[o].op = "ItemToggle" /\ txs[o].pc = "toggling" /\ txs[o].item = i)
    /\ ItemDelete(u, i)
    /\ UNCHANGED txVars

\* a plan of user A with one category and two items, the first one completed
ToggleInit ==
    /\ NewHub
    /\ TxInit /\ ExtraInit
    /\ plans = <<[owner |-> "A", ceiling |-> Ceiling]>>
    /\ cats = <<[plan |-> 1, pos |-> 0]>>
    /\ items = <<[cat |-> 1, amount |-> 1, done |-> TRUE, pos |-> 0],
                 [cat |-> 1, amount |-> 1, done |-> FALSE, pos |-> 1]>>
    /\ notes = <<>>
    /\ nPlans = 1
    /\ nCats = 1
    /\ nItems = 2
    /\ nNotes = 0
    /\ lastOp = Outcome("CreateWithDetails", OK)

ToggleNext ==
    \/ \E t \in Txs, u \in Users, i \in 1..2, v \in {"nil", "true", "false"} :
           TxToggleBegin(t, u, i, v) /\ UNCHANGED <<hubVars, extraVars>>
    \/ \E t \in Txs : TxToggleSelect(t) /\ UNCHANGED <<hubVars, extraVars>>
    \/ \E t \in Txs : TxToggleUpdate(t) /\ UNCHANGED <<hubVars, extraVars>>
    \/ \E u \in Users : TxToggleItemDelete(u, 2) /\ UNCHANGED <<hubVars, extraVars>>

\* Toggle calls running at the same time on two connections
SpecToggle == ToggleInit /\ [][ToggleNext]_vars

\* ------------------------------------------------ notes created at the same time
\* NoteRepository.Create by statement, called by NoteHandler.Create (one
\* note of type user) and by AIHandler.AnalyzeSpending (DeleteByPlanAndType
\* of the ai notes, then one Create per advice; the handler opens no
\* transaction around them).  Of txs[t] these calls use
\*   parent   the plan
\*   item     the number of the call (noteInfo[n].by of the notes it makes)
\*   affected the notes the call has still to create
\*   cur      maxOrder as read by the Create that is running
MaxAdvices == 2

AiNotesOf(p) == {n \in NotesOfPlan(p) : noteInfo[n].type = "ai"}

\* NoteHandler.Create: Notes.Create(ctx, userID, planID, content, noteType)
TxNoteCreateBegin(t, u, p) ==
    /\ Free(t)
    /\ nTx < MaxTx
    /\ nTx' = nTx + 1
    /\ txs' = [txs EXCEPT ![t] =
                 [IdleTx EXCEPT !.pc = "creating", !.op = "NoteCreate", !.u = u,
                                !.parent = p, !.item = nTx + 1, !.affected = 1]]
    /\ UNCHANGED <<ledgerVars, noteInfo, aiGenerated, otherVars>>

\* AnalyzeSpending up to the advices: Plans.GetByID (ErrNotFound gives 404),
\* the reads of categories and items, the AI service or fallbackAdvices()
TxAnalyzeBegin(t, u, p, k) ==
    /\ Free(t)
    /\ nTx < MaxTx
    /\ nTx' = nTx + 1
    /\ txs' = [txs EXCEPT ![t] =
                 IF PlanOwnedBy(u, p)
                 THEN [IdleTx EXCEPT !.pc = "advised", !.op = "AnalyzeSpending", !.u = u,
                                     !.parent = p, !.item = nTx + 1, !.affected = k]
                 ELSE [IdleTx EXCEPT !.pc = "done", !.op = "AnalyzeSpending",
                                     !.result = ErrNotFound]]
    /\ UNCHANGED <<ledgerVars, noteInfo, aiGenerated, otherVars>>

\* Notes.DeleteByPlanAndType(ctx, userID, plan.ID, NoteTypeAI): one DELETE
\* statement; ErrNotFound (no row deleted) is not an error for the handler
TxAnalyzeDelete(t) ==
    LET x == txs[t]
        gone == IF PlanOwnedBy(x.u, x.parent) THEN AiNotesOf(x.parent) ELSE {}
    IN
    /\ x.pc = "advised"
    /\ notes' = Without(notes, gone)
    /\ noteInfo' = Without(noteInfo, gone)
    /\ txs' = [txs EXCEPT ![t].pc = "creating"]
    /\ UNCHANGED <<plans, cats, items, nPlans, nCats, nItems, nNotes, lastOp, nTx>>

\* NoteRepository.Create: Begin, SELECT EXISTS (the plan is the user's),
\* SELECT COALESCE(MAX(sort_order), -1) FROM notes WHERE plan_id = $1
TxNoteMax(t) ==
    LET x == txs[t] IN
    /\ x.pc = "creating"
    /\ txs' = [txs EXCEPT ![t] =
                 IF PlanOwnedBy(x.u, x.parent)
                 THEN [x EXCEPT !.pc = "inserting",
                                !.cur = MaxOrder(notes, NotesOfPlan(x.parent))]
                 ELSE [Ended(t, IF x.op = "NoteCreate" THEN ErrNotFound ELSE ErrOther)
                          EXCEPT !.item = x.item]]
    /\ UNCHANGED <<ledgerVars, noteInfo, aiGenerated, otherVars, nTx>>

\* sortOrder := maxOrder + 1; INSERT INTO notes ...; Commit; and back in the
\* handler the next advice, or the response
TxNoteInsert(t) ==
    LET x == txs[t]
        n == nNotes + 1
    IN
    /\ x.pc = "inserting"
    /\ notes' = MapPut(notes, n, [plan |-> x.parent, pos |-> x.cur + 1])
    /\ noteInfo' = MapPut(noteInfo, n,
                          [type |-> IF x.op = "NoteCreate" THEN "user" ELSE "ai", by |-> x.item])
    /\ nNotes' = n
    /\ txs' = [txs EXCEPT ![t] =
                 IF x.affected > 1
                 THEN [x EXCEPT !.pc = "creating", !.affected = @ - 1]
                 ELSE [Ended(t, OK) EXCEPT !.item = x.item]]
    /\ UNCHANGED <<plans, cats, items, nPlans, nCats, nItems, lastOp, nTx>>

\* a plan of user A with a note of the user and an ai note of an earlier
\* analysis (call 0)
AdviceInit ==
    /\ NewHub
    /\ TxInit
    /\ conns = <<>>
    /\ plans = <<[owner |-> "A", ceiling |-> Ceiling]>>
    /\ cats = <<[plan |-> 1, pos |-> 0]>>
    /\ items = <<>>
    /\ notes = <<[plan |-> 1, pos |-> 0], [plan |-> 1, pos |-> 1]>>
    /\ noteInfo = <<[type |-> "user", by |-> 0], [type |-> "ai", by |-> 0]>>
    /\ aiGenerated = <<>>
    /\ OtherInit
    /\ nPlans = 1
    /\ nCats = 1
    /\ nItems = 0
    /\ nNotes = 2
    /\ lastOp = Outcome("CreateWithDetails", OK)

AdviceNext ==
    \/ \E t \in Txs, u \in Users :
           TxNoteCreateBegin(t, u, 1) /\ UNCHANGED <<hubVars, conns, aiGenerated, otherVars>>
    \/ \E t \in Txs, u \in Users, k \in 1..MaxAdvices :
           TxAnalyzeBegin(t, u, 1, k) /\ UNCHANGED <<hubVars, conns, aiGenerated, otherVars>>
    \/ \E t \in Txs : TxAnalyzeDelete(t) /\ UNCHANGED <<hubVars, conns, aiGenerated, otherVars>>
    \/ \E t \in Txs : TxNoteMax(t) /\ UNCHANGED <<hubVars, conns, aiGenerated, otherVars>>
    \/ \E t \in Txs : TxNoteInsert(t) /\ UNCHANGED <<hubVars, conns, aiGenerated, otherVars>>

\* note creations and spending analyses running at the same time
SpecAdvice == AdviceInit /\ [][AdviceNext]_vars

\* ================================================ PlanHandler.Create
\* The request carries budget_cents and the two dates of the period; the
\* dates are well formed and stand as day numbers, the title and the colour
\* are valid.

\* a parsePeriod that does not compare the two dates
parsePeriodUnordered(periodStart, periodEnd) == OK

\* parsePeriod: periodEnd.Before(periodStart) is an error
parsePeriod(periodStart, periodEnd) ==
    IF periodEnd < periodStart THEN ErrInvalid ELSE OK

\* c.Validate(&req): PlanRequest.BudgetCents carries validate:"gt=0"
ValidatePlanRequest(budgetCents) ==
    IF budgetCents > 0 THEN OK ELSE ErrInvalid

\* Either check failing is answered with badRequest before the store is
\* called.  The store call is one transaction: the plan row and the six
\* category rows, a failing statement (dbFails) returns with the deferred
\* Rollback and the handler answers serverError.  On success the handler
\* publishes budget_updated for the new plan and answers 201.
PlanHandlerCreate(u, budgetCents, periodStart, periodEnd, dbFails) ==
    LET req == [Outcome("PlanCreate", OK) EXCEPT
                    !.by = u, !.budget = budgetCents,
                    !.periodStart = periodStart, !.periodEnd = periodEnd]
        checked == IF ValidatePlanRequest(budgetCents) # OK THEN ErrInvalid
                   ELSE parsePeriod(periodStart, periodEnd)
    IN
    /\ checked # OK \/ dbFails \/ nPlans < MaxPlans
    /\ IF checked # OK
       THEN /\ lastOp' = [req EXCEPT !.result = ErrInvalid, !.status = 400]
            /\ UNCHANGED <<plans, cats, nPlans, nCats>>
       ELSE IF dbFails
       THEN /\ lastOp' = [req EXCEPT !.result = ErrOther, !.status = 500]
            /\ UNCHANGED <<plans, cats, nPlans, nCats>>
       ELSE /\ lastOp' = [req EXCEPT !.plan = nPlans + 1, !.status = 201,
                                     !.notified = nPlans + 1]
            /\ InsertPlan(u, budgetCents)
    /\ UNCHANGED <<items, notes, nItems, nNotes>>

\* the days a period may start or end on
MaxDay == 2

\* plan requests and plan deletions, one at a time, on an empty database
CreatePlanNext ==
    \/ \E u \in Users, budgetCents \in {0 - 1, 0, 6, Ceiling},
          periodStart \in 1 .. MaxDay, periodEnd \in 1 .. MaxDay, dbFails \in BOOLEAN :
           PlanHandlerCreate(u, budgetCents, periodStart, periodEnd, dbFails)
           /\ UNCHANGED <<hubVars, txVars, extraVars>>
    \/ \E u \in Users, p \in 1 .. MaxPlans :
           PlanDelete(u, p) /\ UNCHANGED <<hubVars, txVars, extraVars>>

SpecCreatePlan == StoreInit /\ [][CreatePlanNext]_vars

\* ================================================ AIHandler.GeneratePlan
\* The request passed Validate and parsePeriod (the checks of PlanHandler
\* .Create).  ai is what Service.GeneratePlan and mapAIPlan gave: "error", an
\* "unmappable" response, or a "plan" of categories cs and notes ns.  fail
\* names the database call of this request that returns an error, if any:
\* the "store" call CreateWithDetails (at Begin, after its two checks), the
\* Plans.Create of the "fallback", the Notes.Create of the "note", or the
\* "read" of buildPlanDetailResponse.
ErrAI == "AI error"

GeneratePlan(u, budgetCents, ai, cs, ns, fail) ==
    LET in == [ceiling |-> budgetCents, cats |-> cs, notes |-> ns]
        early == Len(cs) = 0 \/ TotalOf(FlatItems(cs, 1)) > budgetCents
        res == IF ai # "plan" THEN ErrAI
               ELSE IF fail = "store" /\ ~early THEN ErrOther
               ELSE CreateWithDetailsResult(in)
        fallback == res \in {ErrAI, ErrInvalid, ErrBudgetExceeded}
        p == nPlans + 1
        req == [Outcome("GeneratePlan", res) EXCEPT !.by = u, !.budget = budgetCents]
        done == [req EXCEPT !.plan = p,
                            !.status = IF fail = "read" THEN 500 ELSE 201,
                            !.notified = IF fail = "read" THEN 0 ELSE p]
    IN
    /\ nPlans < MaxPlans
    /\ IF res = OK
       THEN /\ InsertDetails(u, in)
            /\ aiGenerated' = MapPut(aiGenerated, p, TRUE)
            /\ lastOp' = done
       ELSE IF fallback /\ fail # "fallback"
       THEN \* createFallbackPlan: _, _ = h.Notes.Create(...), its error is dropped
            /\ InsertPlan(u, budgetCents)
            /\ aiGenerated' = MapPut(aiGenerated, p, FALSE)
            /\ IF fail = "note"
               THEN UNCHANGED <<notes, nNotes>>
               ELSE /\ notes' = MapPut(notes, nNotes + 1, [plan |-> p, pos |-> 0])
                    /\ nNotes' = nNotes + 1
            /\ lastOp' = done
            /\ UNCHANGED <<items, nItems>>
       ELSE /\ lastOp' = [req EXCEPT !.status = 500]
            /\ UNCHANGED <<plans, cats, items, notes, nPlans, nCats, nItems, nNotes,
                           aiGenerated>>

\* the categories and the notes of the plans the AI answers with
GeneratedCats ==
    {<<>>, <<PlainCat>>, <<[PlainCat EXCEPT !.blank = TRUE]>>, <<CatWith(4)>>,
     <<CatWith(Int64Max)>>}

GeneratedNotes == {<<>>, <<[blank |-> FALSE]>>, <<[blank |-> TRUE]>>}

\* generation requests and plan deletions, one at a time, on an empty database
GenerateNext ==
    \/ \E u \in Users, ai \in {"error", "unmappable", "plan"},
          cs \in GeneratedCats, ns \in GeneratedNotes,
          fail \in {"none", "store", "fallback", "note", "read"} :
           GeneratePlan(u, Ceiling, ai, cs, ns, fail)
           /\ UNCHANGED <<hubVars, txVars, conns, noteInfo, otherVars>>
    \/ \E u \in Users, p \in 1 .. MaxPlans :
           PlanDelete(u, p) /\ UNCHANGED <<hubVars, txVars, extraVars>>

SpecGenerate == StoreInit /\ [][GenerateNext]_vars

\* ================================================ buildCopyTitle
\* A Go string is a sequence of bytes.  The bytes of an ASCII character are
\* written as the character; "L2" and "L3" are the lead bytes of a two-byte
\* and of a three-byte encoding and "T" is a continuation byte.  The runes
\* are the ASCII characters, "U+044F" (two bytes) and "U+FFFD" (three bytes),
\* which is also utf8.RuneError.
MaxTitleBytes == 3   \* len(title)
MaxRunesArg == 12    \* maxRunes

RuneError == "U+FFFD"

RECURSIVE Runes(_)
\* []rune(s): a byte that starts no valid encoding decodes to RuneError and
\* is one byte wide
Runes(b) ==
    IF b = <<>> THEN <<>>
    ELSE IF b[1] = "L2" /\ Len(b) >= 2 /\ b[2] = "T"
    THEN <<"U+044F">> \o Runes(SubSeq(b, 3, Len(b)))
    ELSE IF b[1] = "L3" /\ Len(b) >= 3 /\ b[2] = "T" /\ b[3] = "T"
    THEN <<"U+FFFD">> \o Runes(SubSeq(b, 4, Len(b)))
    ELSE IF b[1] \in {"L2", "L3", "T"}
    THEN <<RuneError>> \o Runes(Tail(b))
    ELSE <<b[1]>> \o Runes(Tail(b))

RECURSIVE String(_)
\* string(runes): the UTF-8 encoding of each rune
String(runes) ==
    IF runes = <<>> THEN <<>>
    ELSE (IF runes[1] = "U+044F" THEN <<"L2", "T">>
          ELSE IF runes[1] = "U+FFFD" THEN <<"L3", "T", "T">>
          ELSE <<runes[1]>>) \o String(Tail(runes))

\* fmt.Sprintf("Copy of %s", title)
CopyOf(title) == <<"C", "o", "p", "y", " ", "o", "f", " ">> \o title

\* a buildCopyTitle that measures and cuts the bytes
buildCopyTitleBytes(title, maxRunes) ==
    LET copyTitle == CopyOf(title) IN
    IF Len(copyTitle) <= maxRunes THEN copyTitle
    ELSE SubSeq(copyTitle, 1, maxRunes)

buildCopyTitle(title, maxRunes) ==
    LET copyTitle == CopyOf(title)
        runes == Runes(copyTitle)
    IN
    IF Len(runes) <= maxRunes THEN copyTitle
    ELSE String(SubSeq(runes, 1, maxRunes))

\* the titles: every byte string up to MaxTitleBytes over an ASCII byte, a
\* lead byte and a continuation byte (valid and invalid UTF-8)
Titles == UNION {[1 .. n -> {"a", "L2", "T"}] : n \in 0 .. MaxTitleBytes}

CopyInit ==
    /\ NewHub /\ LedgerInit /\ TxInit
    /\ conns = <<>> /\ noteInfo = <<>> /\ aiGenerated = <<>> /\ updateReq = NoUpdate
    /\ lastEvent = <<>> /\ overlap = {} /\ tokens = <<>> /\ refreshes = <<>> /\ dbOpen = <<>>
    /\ \E title \in Titles, maxRunes \in 0 .. MaxRunesArg :
           copyCall = [title |-> title, maxRunes |-> maxRunes,
                       result |-> <<>>, returned |-> FALSE]

CopyNext ==
    /\ ~copyCall.returned
    /\ copyCall' = [copyCall EXCEPT
                        !.result = buildCopyTitle(copyCall.title, copyCall.maxRunes),
                        !.returned = TRUE]
    /\ UNCHANGED <<hubVars, ledgerVars, txVars, conns, noteInfo, aiGenerated, updateReq,
                   lastEvent, overlap, tokens, refreshes, dbOpen>>

SpecCopy == CopyInit /\ [][CopyNext]_vars

\* ================================================ amounts against the ceiling
\* Requests of the owners, one at a time, on the plan of HandlerInit: item
\* Create, Update, Toggle and Delete, plan Update and Duplicate.  updateReq
\* keeps, for an Update of an item of the caller, the amount sent, the
\* amount of the item and the plan's total and ceiling as the call met them.
MetBy(u, i, amt) ==
    IF ItemOwnedBy(u, i)
    THEN [amt |-> amt, cur |-> items[i].amount,
          total |-> sumPlanAmount(PlanOfItem(i)),
          ceiling |-> plans[PlanOfItem(i)].ceiling]
    ELSE NoUpdate

SpentFrame == <<hubVars, txVars, conns, noteInfo, aiGenerated, copyCall,
               lastEvent, overlap, tokens, refreshes, dbOpen>>

SpentNext ==
    \/ \E u \in Users, amt \in {6, Int64Max}, done \in BOOLEAN :
           /\ ItemCreate(u, 1, 1, amt, done)
           /\ UNCHANGED <<SpentFrame, updateReq>>
    \/ \E u \in Users, i \in 1 .. MaxItems, amt \in {4, 6} :
           /\ ItemUpdate(u, i, amt)
           /\ updateReq' = MetBy(u, i, amt)
           /\ UNCHANGED SpentFrame
    \/ \E u \in Users, i \in 1 .. MaxItems, isCompleted \in {"nil", "true", "false"} :
           ItemToggle(u, i, isCompleted) /\ UNCHANGED <<SpentFrame, updateReq>>
    \/ \E u \in Users, i \in 1 .. MaxItems :
           ItemDelete(u, i) /\ UNCHANGED <<SpentFrame, updateReq>>
    \/ \E u \in Users, budgetCents \in {5, Ceiling} :
           PlanUpdate(u, 1, budgetCents) /\ UNCHANGED <<SpentFrame, updateReq>>
    \/ \E u \in Users :
           Duplicate(u, 1) /\ UNCHANGED <<SpentFrame, updateReq>>

SpecSpent == HandlerInit /\ [][SpentNext]_vars

\* ================================================ the publish after a mutation
\* ItemHandler.Toggle and PlanHandler.Update of requests running at the same
\* time, one database call or publish per step.  The store call commits in
\* its step (Toggle calls on one item are ordered by the row lock).  Of
\* txs[t] a request uses
\*   parent   the plan
\*   amt      plan.BudgetCents as read by GetByID or returned by Update
\*   cur      spent as read by GetSpentCents

\* a request that has committed and goes on to the reads for its event
Committed(t, op, u, p, next, budgetCents) ==
    [IdleTx EXCEPT !.pc = next, !.op = op, !.u = u, !.parent = p, !.amt = budgetCents]

\* Items.Toggle; an error answers the request without an event
ReqToggle(t, u, i) ==
    /\ Free(t)
    /\ nTx < MaxTx
    /\ nTx' = nTx + 1
    /\ ItemToggle(u, i, "nil")
    /\ txs' = [txs EXCEPT ![t] =
                 IF ItemToggleResult(u, i) = OK
                 THEN Committed(t, "ItemToggle", u, PlanOfItem(i), "GetByID", 0)
                 ELSE [IdleTx EXCEPT !.pc = "done", !.op = "ItemToggle",
                                     !.result = ErrNotFound]]

\* Plans.Update returns the plan row it wrote
ReqPlanUpdate(t, u, p, budgetCents) ==
    /\ Free(t)
    /\ nTx < MaxTx
    /\ nTx' = nTx + 1
    /\ PlanUpdate(u, p, budgetCents)
    /\ txs' = [txs EXCEPT ![t] =
                 IF PlanOwnedBy(u, p)
                 THEN Committed(t, "PlanUpdate", u, p, "GetSpentCents", budgetCents)
                 ELSE [IdleTx EXCEPT !.pc = "done", !.op = "PlanUpdate",
                                     !.result = ErrNotFound]]

\* notifyBudgetUpdate: plan, err := h.Plans.GetByID(ctx, userID, planID)
ReqGetByID(t) ==
    LET x == txs[t] IN
    /\ x.pc = "GetByID"
    /\ txs' = [txs EXCEPT ![t] =
                 IF PlanOwnedBy(x.u, x.parent)
                 THEN [x EXCEPT !.pc = "GetSpentCents", !.amt = plans[x.parent].ceiling]
                 ELSE [x EXCEPT !.pc = "done"]]
    /\ UNCHANGED <<ledgerVars, nTx>>

\* spent, err := h.Plans.GetSpentCents(ctx, plan.ID)
ReqGetSpent(t) ==
    LET x == txs[t] IN
    /\ x.pc = "GetSpentCents"
    /\ txs' = [txs EXCEPT ![t] =
                 IF FitsInt64(GetSpentCents(x.parent))
                 THEN [x EXCEPT !.pc = "publish", !.cur = GetSpentCents(x.parent)]
                 ELSE [x EXCEPT !.pc = "done"]]
    /\ UNCHANGED <<ledgerVars, nTx>>

\* publishBudgetUpdate(h.Notifier, userID, plan.ID, spent, plan.BudgetCents-spent)
ReqPublish(t) ==
    LET x == txs[t] IN
    /\ x.pc = "publish"
    /\ lastEvent' = MapPut(lastEvent, x.parent,
                           [spent |-> x.cur, remaining |-> RemainingCents(x.amt, x.cur)])
    /\ txs' = [txs EXCEPT ![t].pc = "done"]
    /\ UNCHANGED <<ledgerVars, nTx>>

NotifyFrame == <<hubVars, conns, noteInfo, aiGenerated, copyCall, updateReq,
                 overlap, tokens, refreshes, dbOpen>>

NotifyNext ==
    \/ \E t \in Txs, u \in Users, i \in 1 .. 2 :
           ReqToggle(t, u, i) /\ UNCHANGED <<NotifyFrame, lastEvent>>
    \/ \E t \in Txs, u \in Users, budgetCents \in {5, Ceiling} :
           ReqPlanUpdate(t, u, 1, budgetCents) /\ UNCHANGED <<NotifyFrame, lastEvent>>
    \/ \E t \in Txs : ReqGetByID(t) /\ UNCHANGED <<NotifyFrame, lastEvent>>
    \/ \E t \in Txs : ReqGetSpent(t) /\ UNCHANGED <<NotifyFrame, lastEvent>>
    \/ \E t \in Txs : ReqPublish(t) /\ UNCHANGED NotifyFrame

\* requests on the plan of ToggleInit, up to two at a time
SpecNotify == ToggleInit /\ [][NotifyNext]_vars

\* ------------------------------------- Publish calls to two subscribers
\* The hub after Subscribe("A") returned channel 1, goroutine p1 published
\* event 1 to "A", and Subscribe("A") then returned channel 2: channel 1 holds
\* event 1, channel 2 is empty, nobody is inside the hub.
FanoutInit ==
    /\ subscribers = [u \in {"A"} |-> {1, 2}]
    /\ mu = [w |-> NoProc, r |-> {}]
    /\ chState = [c \in Chans |-> IF c \in {1, 2} THEN "open" ELSE "unmade"]
    /\ chUser = [c \in Chans |-> IF c \in {1, 2} THEN "A" ELSE NoUser]
    /\ delivered = [c \in Chans |-> IF c = 1 THEN <<1>> ELSE <<>>]
    /\ nrecv = [c \in Chans |-> 0]
    /\ returned = {1, 2}
    /\ unsubCalls = [c \in Chans |-> 0]
    /\ unsubDone = {}
    /\ pc = [p \in Procs |-> "idle"]
    /\ pUser = [p \in Procs |-> NoUser]
    /\ pChan = [p \in Procs |-> 0]
    /\ pEvent = [p \in Procs |-> 0]
    /\ pTodo = [p \in Procs |-> {}]
    /\ pSeen = [p \in Procs |-> <<>>]
    /\ calls = 0
    /\ nextEvent = 1
    /\ firstEvent = 1
    /\ firstChan = 2
    /\ evUser = [i \in {1} |-> "A"]
    /\ evProc = [i \in {1} |-> "p1"]
    /\ fanned = {1}
    /\ prior = [c \in Chans |-> IF c = 2 THEN {1} ELSE {}]
    /\ LedgerInit /\ TxInit /\ ExtraInit

\* the events of the Publish calls that have been called and have not returned
InFlight == {pEvent[q] : q \in {r \in Procs : pc[r] \in {"pub_rlock", "pub_loop", "pub_ret"}}}

FanoutNext ==
    \/ \E p \in Procs, u \in Users :
           /\ PublishCall(p, u)
           /\ overlap' = overlap \cup {{nextEvent + 1, e} : e \in InFlight}
           /\ UNCHANGED <<ledgerVars, txVars, conns, noteInfo, aiGenerated,
                          copyCall, updateReq, lastEvent, tokens, refreshes, dbOpen>>
    \/ \E p \in Procs : PublishRLock(p) /\ UNCHANGED <<ledgerVars, txVars, extraVars>>
    \/ \E p \in Procs, ch \in Chans : PublishSend(p, ch) /\ UNCHANGED <<ledgerVars, txVars, extraVars>>
    \/ \E p \in Procs : PublishDone(p) /\ UNCHANGED <<ledgerVars, txVars, extraVars>>
    \/ \E p \in Procs : PublishReturn(p) /\ UNCHANGED <<ledgerVars, txVars, extraVars>>
    \/ \E ch \in Chans : Receive(ch) /\ UNCHANGED <<ledgerVars, txVars, extraVars>>

SpecFanout == FanoutInit /\ [][FanoutNext]_vars

\* --------------------------------------------- refresh tokens and Refresh
\* refresh_tokens holds the committed rows; a Rotate keeps its INSERT and its
\* UPDATE to itself until it commits, and its UPDATE locks the old row until
\* the transaction ends (READ COMMITTED).
MaxTokens == 2     \* refresh tokens issued by logins
MaxRefresh == 3    \* Refresh requests in one behaviour

Reqs == 1..MaxRefresh

\* uuid.New(): an id no row and no request has had
FreshTokenId ==
    LET used == {0} \cup DOMAIN tokens \cup {refreshes[r].new : r \in DOMAIN refreshes}
    IN 1 + CHOOSE x \in used : \A y \in used : y <= x

\* the tokens logins issued (the others replaced a token)
Issued == {t \in DOMAIN tokens : \A s \in DOMAIN tokens : tokens[s].replacedBy # t}

\* AuthHandler.issueTokens: Tokens.Create stores the token of a login
TokensCreate ==
    /\ Cardinality(Issued) < MaxTokens
    /\ tokens' = MapPut(tokens, FreshTokenId, [revoked |-> FALSE, replacedBy |-> 0])
    /\ UNCHANGED refreshes

\* an UPDATE that revokes the row whether or not it is revoked already
RevokeMatchesRevoked(rows, id) == id \in DOMAIN rows

\* WHERE id = $1 AND revoked_at IS NULL
RevokeMatches(rows, id) == id \in DOMAIN rows /\ ~rows[id].revoked

\* the row is locked by the uncommitted UPDATE of another Rotate
RowLocked(id, r) ==
    \E q \in DOMAIN refreshes :
        q # r /\ refreshes[q].pc = "updated" /\ refreshes[q].old = id

\* Logout: Tokens.Revoke(refreshID, nil), one statement; it waits for the
\* row lock, and a row that is missing or revoked is left alone
TokensRevoke(t) ==
    /\ ~RowLocked(t, 0)
    /\ tokens' = IF RevokeMatches(tokens, t)
                 THEN MapPut(tokens, t, [revoked |-> TRUE, replacedBy |-> 0])
                 ELSE tokens
    /\ UNCHANGED refreshes

Answered(r, code) == [refreshes[r] EXCEPT !.pc = "done", !.status = code]

\* Refresh up to the checks of the stored token: Tokens.GetByID reads the
\* committed row; a missing or revoked row, and an expired token, another
\* user's token or a wrong hash (valid = FALSE), are answered 401
RefreshGetByID(r, t, valid) ==
    /\ r \notin DOMAIN refreshes
    /\ refreshes' = MapPut(refreshes, r,
                        IF t \in DOMAIN tokens /\ ~tokens[t].revoked /\ valid
                        THEN [pc |-> "read", old |-> t, new |-> 0, status |-> 0]
                        ELSE [pc |-> "done", old |-> t, new |-> 0, status |-> 401])
    /\ UNCHANGED tokens

\* newRefreshID := uuid.New(); Users.GetByID (a missing user is answered
\* 401); Rotate: Begin and the INSERT of the new token (an error is
\* answered 500, the deferred Rollback runs)
RotateInsert(r, found, fails) ==
    /\ r \in DOMAIN refreshes
    /\ refreshes[r].pc = "read"
    /\ refreshes' = [refreshes EXCEPT ![r] =
                        [@ EXCEPT !.new = FreshTokenId,
                                  !.pc = IF found /\ ~fails THEN "inserted" ELSE "done",
                                  !.status = IF ~found THEN 401
                                             ELSE IF fails THEN 500 ELSE 0]]
    /\ UNCHANGED tokens

\* Rotate: the UPDATE of the old row; it waits while another transaction
\* holds the row, then matches the committed row; RowsAffected() == 0 gives
\* ErrNotFound, answered 401, and the deferred Rollback discards the INSERT
RotateUpdate(r) ==
    /\ r \in DOMAIN refreshes
    /\ refreshes[r].pc = "inserted"
    /\ ~RowLocked(refreshes[r].old, r)
    /\ refreshes' = [refreshes EXCEPT ![r] =
                        IF RevokeMatches(tokens, refreshes[r].old)
                        THEN [@ EXCEPT !.pc = "updated"]
                        ELSE Answered(r, 401)]
    /\ UNCHANGED tokens

\* Rotate: tx.Commit makes the new row and the revocation visible together
\* (answered 200); a failed Commit leaves neither (answered 500)
RotateCommit(r, fails) ==
    /\ r \in DOMAIN refreshes
    /\ refreshes[r].pc = "updated"
    /\ IF fails
       THEN /\ refreshes' = [refreshes EXCEPT ![r] = Answered(r, 500)]
            /\ UNCHANGED tokens
       ELSE /\ refreshes' = [refreshes EXCEPT ![r] = Answered(r, 200)]
            /\ tokens' = MapPut(MapPut(tokens, refreshes[r].old,
                                       [revoked |-> TRUE, replacedBy |-> refreshes[r].new]),
                                refreshes[r].new, [revoked |-> FALSE, replacedBy |-> 0])

RefreshFrame == <<hubVars, ledgerVars, txVars, conns, noteInfo, aiGenerated,
                  copyCall, updateReq, lastEvent, overlap, dbOpen>>

RefreshNext ==
    \/ TokensCreate /\ UNCHANGED RefreshFrame
    \/ \E t \in 1..MaxTokens : TokensRevoke(t) /\ UNCHANGED RefreshFrame
    \/ \E r \in Reqs, t \in 1..(MaxTokens + 1), valid \in BOOLEAN :
           RefreshGetByID(r, t, valid) /\ UNCHANGED RefreshFrame
    \/ \E r \in Reqs, found, fails \in BOOLEAN :
           RotateInsert(r, found, fails) /\ UNCHANGED RefreshFrame
    \/ \E r \in Reqs : RotateUpdate(r) /\ UNCHANGED RefreshFrame
    \/ \E r \in Reqs, fails \in BOOLEAN : RotateCommit(r, fails) /\ UNCHANGED RefreshFrame

\* Refresh requests, logins and logouts running at the same time, from an
\* empty refresh_tokens table
SpecRefresh == StoreInit /\ [][RefreshNext]_vars

\* ----------------------------------------------------------- database.Open
\* retries := 5
Retries == 5

\* dbOpen is <<>> before the call.  During the call it keeps the position,
\* the loop counter i, the backoff in seconds, the pool of the current
\* attempt (0 = nil) and whether its creation and its ping succeeded, the
\* pools that are open, whether ctx is cancelled and whether the timer of the
\* current wait has fired, and what the call returned.
OpenCalled == dbOpen # <<>>

OpenAt(pos) == OpenCalled /\ dbOpen.pc = pos

\* pgxpool.ParseConfig(cfg.DSN()); a bad DSN returns at once
OpenParseConfig(ok, cancelled) ==
    /\ ~OpenCalled
    /\ dbOpen' = [pc |-> IF ok THEN "attempt" ELSE "done",
                  i |-> 0, backoff |-> 1, pool |-> 0,
                  created |-> FALSE, pinged |-> FALSE, open |-> {},
                  ctxDone |-> cancelled, fired |-> FALSE,
                  result |-> IF ok THEN "none" ELSE "config error"]

\* the caller cancels ctx, or its deadline passes
CtxCancel ==
    /\ OpenCalled
    /\ dbOpen.pc # "done"
    /\ ~dbOpen.ctxDone
    /\ dbOpen' = [dbOpen EXCEPT !.ctxDone = TRUE]

\* for i := 0; i < retries; i++ { pool, err = NewWithConfig; if err == nil
\* { err = pool.Ping(pingCtx); if err == nil { return pool, nil } } ...
\* A failed NewWithConfig returns a nil pool; the ping runs only on a pool
\* that was created.  After the last iteration the function returns the error.
OpenAttempt(created, pinged) ==
    /\ OpenAt("attempt")
    /\ IF dbOpen.i < Retries
       THEN LET ok == created /\ pinged IN
            dbOpen' = [dbOpen EXCEPT
                          !.pool = IF created THEN dbOpen.i + 1 ELSE 0,
                          !.open = IF created THEN @ \cup {dbOpen.i + 1} ELSE @,
                          !.created = created,
                          !.pinged = ok,
                          !.pc = IF ok THEN "done" ELSE "close",
                          !.result = IF ok THEN "pool" ELSE "none"]
       ELSE dbOpen' = [dbOpen EXCEPT !.pc = "done", !.result = "error", !.pool = 0]

\* a retry that leaves the pool of the failed attempt open
ClosePoolNever(open, pool) == open

\* pool.Close()
ClosePool(open, pool) == open \ {pool}

\* if pool != nil { pool.Close() }; log.Printf; the select starts waiting
OpenClose ==
    /\ OpenAt("close")
    /\ dbOpen' = [dbOpen EXCEPT
                     !.open = IF dbOpen.pool # 0 THEN ClosePool(@, dbOpen.pool) ELSE @,
                     !.fired = FALSE,
                     !.pc = "wait"]

\* the timer of time.After(backoff) fires
TimerFires ==
    /\ OpenAt("wait")
    /\ ~dbOpen.fired
    /\ dbOpen' = [dbOpen EXCEPT !.fired = TRUE]

\* case <-ctx.Done(): return nil, ctx.Err()
OpenSelectDone ==
    /\ OpenAt("wait")
    /\ dbOpen.ctxDone
    /\ dbOpen' = [dbOpen EXCEPT !.pc = "done", !.result = "ctx error", !.pool = 0]

\* case <-time.After(backoff): backoff *= 2; then i++
OpenSelectTimer ==
    /\ OpenAt("wait")
    /\ dbOpen.fired
    /\ dbOpen' = [dbOpen EXCEPT !.backoff = @ * 2, !.i = @ + 1, !.pc = "attempt"]

OpenFrame == <<hubVars, ledgerVars, txVars, conns, noteInfo, aiGenerated,
               copyCall, updateReq, lastEvent, overlap, tokens, refreshes>>

\* the steps of the goroutine that runs Open, and of the runtime's timer
OpenStep ==
    \/ \E ok, cancelled \in BOOLEAN : OpenParseConfig(ok, cancelled) /\ UNCHANGED OpenFrame
    \/ \E created, pinged \in BOOLEAN : OpenAttempt(created, pinged) /\ UNCHANGED OpenFrame
    \/ OpenClose /\ UNCHANGED OpenFrame
    \/ TimerFires /\ UNCHANGED OpenFrame
    \/ OpenSelectDone /\ UNCHANGED OpenFrame
    \/ OpenSelectTimer /\ UNCHANGED OpenFrame

OpenNext ==
    \/ OpenStep
    \/ CtxCancel /\ UNCHANGED OpenFrame

SpecOpen == StoreInit /\ [][OpenNext]_vars

\* NewWithConfig, the ping (it has a timeout of 5 seconds) and Close return,
\* the timer fires and the goroutine is scheduled: a step of Open that can be
\* taken is taken.  Nothing makes the caller cancel ctx.
SpecOpenFair == StoreInit /\ [][OpenNext]_vars /\ WF_vars(OpenStep)

\* ------------------------------------------------------------------ claims
InPublish(p) == pc[p] \in {"pub_loop", "pub_ret"}

\* C1: when a Publish(u, e) has finished its loop, e is on every channel
\* registered for u whose buffer had room when the loop visited it, and on no
\* channel that is not registered for u; no channel ever holds an event
\* published to another user than its own.
C1_FanOutIsolation ==
    /\ \A ch \in Chans : \A i \in DOMAIN delivered[ch] :
           evUser[delivered[ch][i]] = chUser[ch]
    /\ \A p \in Procs : pc[p] = "pub_ret" =>
           /\ \A ch \in Targets(subscribers, pUser[p]) :
                  /\ ch \in DOMAIN pSeen[p]
                  /\ pSeen[p][ch] < Capacity => pEvent[p] \in Range(delivered[ch])
           /\ \A ch \in Chans :
                  pEvent[p] \in Range(delivered[ch]) => ch \in Targets(subscribers, pUser[p])

\* two channels of the published-to user have the event, and another user is
\* subscribed at that moment
C1_Witness ==
    \E p \in Procs :
        /\ pc[p] = "pub_ret"
        /\ Cardinality({ch \in Targets(subscribers, pUser[p]) :
                            pEvent[p] \in Range(delivered[ch])}) >= 2
        /\ \E u \in DOMAIN subscribers : u # pUser[p]

\* C2 (as claimed): no call of an unsubscribe closure panics.
C2_UnsubscribeNeverPanics ==
    \A p \in Procs : pc[p] # "unsub_panic"

\* C3: a send to a channel that held Capacity events leaves the event out of
\* that channel and no buffer ever exceeds Capacity; the same Publish has put
\* the event on the channels it found with room; the loop is never stuck (its
\* next iteration, or its end, can always be taken) and never panics.
C3_DropOnFull ==
    /\ \A ch \in Chans : Len(Buf(ch)) <= Capacity
    /\ \A p \in Procs : InPublish(p) =>
           \A ch \in DOMAIN pSeen[p] :
               IF pSeen[p][ch] >= Capacity
               THEN pEvent[p] \notin Range(delivered[ch])
               ELSE pEvent[p] \in Range(delivered[ch])
    /\ \A p \in Procs : pc[p] = "pub_loop" =>
           ENABLED ((PublishDone(p) \/ \E ch \in Chans : PublishSend(p, ch))
                    /\ UNCHANGED <<ledgerVars, txVars, extraVars>>)
    /\ \A p \in Procs : pc[p] # "pub_panic"

\* a Publish finished its loop having found one channel full and one with room
C3_Witness ==
    \E p \in Procs :
        /\ pc[p] = "pub_ret"
        /\ \E c1, c2 \in DOMAIN pSeen[p] :
               /\ pSeen[p][c1] = Capacity
               /\ pSeen[p][c2] < Capacity

\* C4: a channel whose unsubscribe has returned is closed and under no user
\* of the registry; every channel a Publish loop is still to visit is open,
\* and no Publish panics on a closed channel.
C4_NoSendOnClosed ==
    /\ \A ch \in unsubDone :
           /\ chState[ch] = "closed"
           /\ \A u \in DOMAIN subscribers : ch \notin subscribers[u]
    /\ \A p \in Procs :
           /\ pc[p] # "pub_panic"
           /\ pc[p] = "pub_loop" => \A ch \in pTodo[p] : chState[ch] = "open"

\* an unsubscribe waits for the lock while a Publish loop still has its
\* channel to visit
C4_Witness ==
    \E p, q \in Procs :
        /\ pc[p] = "pub_loop"
        /\ pc[q] = "unsub_lock"
        /\ pChan[q] \in pTodo[p]

Outside(p) == pc[p] \in {"idle", "panicked"}

\* C5: every hub call that has started ends (it returns or, in the double
\* close of C2, panics) with the mutex released, whatever the consumers do.
C5_CallsComplete ==
    \A p \in Procs : (~Outside(p)) ~> (Outside(p) /\ mu.w # p /\ p \notin mu.r)

\* a writer waits for the mutex that a Publish holds, the Publish having
\* found a full channel nobody reads
C5_Witness ==
    \E p, q \in Procs :
        /\ pc[q] \in {"sub_lock", "unsub_lock"}
        /\ InPublish(p)
        /\ \E ch \in DOMAIN pSeen[p] : pSeen[p][ch] = Capacity /\ nrecv[ch] = 0

\* C6: no channel holds an event whose Publish had read the registry before
\* the channel was registered.
C6_NoReplay ==
    \A ch \in Chans : Range(delivered[ch]) \cap prior[ch] = {}

\* a channel registered after an event to its user was fanned out has since
\* received a later event
C6_Witness ==
    \E ch \in Chans :
        /\ \E e \in prior[ch] : e > firstEvent /\ evUser[e] = chUser[ch]
        /\ delivered[ch] # <<>>

\* C7: a channel never holds an event twice, and two events stamped by the
\* same goroutine sit in a channel in the order they were published (ids are
\* stamped in publish order).
C7_AtMostOnceInOrder ==
    \A ch \in Chans : \A i, j \in DOMAIN delivered[ch] :
        i < j =>
            /\ delivered[ch][i] # delivered[ch][j]
            /\ evProc[delivered[ch][i]] = evProc[delivered[ch][j]]
                   => delivered[ch][i] < delivered[ch][j]

\* a channel holds two events that one goroutine published in this behaviour
C7_Witness ==
    \E ch \in Chans : \E i, j \in DOMAIN delivered[ch] :
        /\ i < j
        /\ delivered[ch][i] > firstEvent
        /\ evProc[delivered[ch][i]] = evProc[delivered[ch][j]]

\* C8: after a successful Reorder of the items of a category, the notes of a
\* plan or the categories of a plan with a list of N ids, the children read
\* back in position order are exactly the list, and the k-th id of the list
\* is at position k - 1 (so the positions are 0..N-1 without gap or duplicate).
C8_ReorderPermutation ==
    lastOp.op \in ReorderOps /\ lastOp.result = OK =>
        /\ ReadOrdered(RowsOf(lastOp.op), ChildrenOf(lastOp.op, lastOp.parent)) = lastOp.ids
        /\ Cardinality(ChildrenOf(lastOp.op, lastOp.parent)) = Len(lastOp.ids)
        /\ \A k \in DOMAIN lastOp.ids : RowsOf(lastOp.op)[lastOp.ids[k]].pos = k - 1

\* a Reorder of three items succeeded and moved the newest item to the front
C8_Witness ==
    /\ lastOp.op = "ItemReorder"
    /\ lastOp.result = OK
    /\ Len(lastOp.ids) = 3
    /\ lastOp.ids[1] > lastOp.ids[2]
    /\ items[lastOp.ids[1]].pos = 0

\* C9: a Reorder that resolved its parent and whose list leaves out a child
\* of that parent, or names an id that is no child of it, returns
\* InvalidInput and changes no position.
C9_ReorderRejectsPartialAndForeign ==
    [][(/\ lastOp'.op \in ReorderOps
        /\ lastOp'.parent # 0
        /\ lastOp'.omits \/ lastOp'.foreign)
       => (/\ lastOp'.result = ErrInvalid
           /\ items' = items
           /\ notes' = notes
           /\ cats' = cats)]_vars

\* a Reorder of a category of two items whose list named one of them only was
\* turned down
C9_Witness ==
    /\ lastOp.op = "ItemReorder"
    /\ lastOp.parent # 0
    /\ lastOp.omits
    /\ ~lastOp.foreign
    /\ lastOp.result = ErrInvalid
    /\ Cardinality(ItemsOfCat(lastOp.parent)) = 2

\* C10: an item Create with a valid owner and category succeeds exactly when
\* the plan's total plus the new amount is within the ceiling, and returns
\* BudgetExceeded otherwise.
C10_CreateWithinCeiling ==
    lastOp.op = "ItemCreate" /\ lastOp.valid =>
        /\ lastOp.result = OK <=> lastOp.within
        /\ ~lastOp.within => lastOp.result = ErrBudgetExceeded

\* C11: whatever the interleaving of item Create and Update calls running at
\* the same time, the item amounts of a plan, as committed, sum up to at most
\* the plan's ceiling.
C11_CommittedTotalWithinCeiling ==
    \A p \in DOMAIN plans : sumPlanAmount(p) <= plans[p].ceiling

\* C12: a Reorder that lost a child of its parent to a delete after its count
\* checks and before its bulk UPDATE took effect fails as a whole: it returns
\* InvalidInput (items, notes) or NotFound (categories), or the database's
\* error if it ended the call as a deadlock victim, and it changes no
\* position.
C12_ReorderRacingDelete ==
    [][\A t \in Txs :
          (txs[t].pc = "updating" /\ txs'[t].pc = "done" /\ txs[t].raced)
          => (/\ txs'[t].result \in {MismatchError(txs[t].op), ErrDeadlock}
              /\ items' = items
              /\ notes' = notes
              /\ cats' = cats)]_vars

\* a Reorder of two items lost one of them after its count checks and
\* returned InvalidInput; the other item is still there
C12_Witness ==
    \E t \in Txs :
        /\ txs[t].pc = "done"
        /\ txs[t].op = "ItemReorder"
        /\ txs[t].full
        /\ txs[t].raced
        /\ txs[t].result = ErrInvalid
        /\ Cardinality(ItemsOfCat(txs[t].parent)) = 1

\* the children of the parent of call t, read back in position order, are
\* the list of t at positions 0..N-1
OrderOf(t) ==
    LET x == txs[t] IN
    /\ ReadOrdered(RowsOf(x.op), ChildrenOf(x.op, x.parent)) = x.ids
    /\ \A k \in DOMAIN x.ids : RowsOf(x.op)[x.ids[k]].pos = k - 1

\* C13: when two Reorder calls of the same parent have both ended (they are
\* the only two calls begun and the parent lost no child meanwhile), then if
\* both lists were full at least one
\* call succeeded, and if any call succeeded the children's positions are
\* exactly the order of a call that succeeded: never a mix of the two.
C13_NoMixedOrder ==
    \A t1, t2 \in Txs :
        (/\ t1 # t2
         /\ txs[t1].pc = "done" /\ txs[t2].pc = "done"
         /\ txs[t1].op \in ReorderOps /\ txs[t2].op = txs[t1].op
         /\ txs[t1].parent # 0 /\ txs[t2].parent = txs[t1].parent
         /\ ~txs[t1].churn /\ ~txs[t2].churn
         /\ nTx = 2)
        => /\ txs[t1].full /\ txs[t2].full
              => \E t \in {t1, t2} : txs[t].result = OK
           /\ (\E t \in {t1, t2} : txs[t].result = OK)
              => \E t \in {t1, t2} : txs[t].result = OK /\ OrderOf(t)

\* two Reorder calls of the same category with different lists both
\* succeeded
C13_Witness ==
    /\ txs[1].pc = "done" /\ txs[2].pc = "done"
    /\ txs[1].op = "ItemReorder" /\ txs[2].op = "ItemReorder"
    /\ txs[1].result = OK /\ txs[2].result = OK
    /\ txs[1].ids # txs[2].ids
    /\ ~txs[1].churn /\ ~txs[2].churn

\* C14: a read of a plan by its owner returns as spent the sum of the amounts
\* of exactly the plan's completed items (0 when there are none), whatever
\* the total over all items, and as remaining the ceiling minus that sum.
C14_SpentIsCompletedSum ==
    lastOp.op = "PlanGet" /\ lastOp.parent # 0 =>
        /\ lastOp.result = OK
        /\ lastOp.spent = CompletedSum(lastOp.parent)
        /\ lastOp.remaining = plans[lastOp.parent].ceiling - CompletedSum(lastOp.parent)

\* C15: item Toggle and item Reorder never return BudgetExceeded and leave
\* every item's amount as it was; Toggle changes nothing but the completion
\* flag of at most one item, Reorder nothing but positions.
C15_ToggleAndReorderFrame ==
    [][lastOp'.op \in {"ItemToggle", "ItemReorder"} =>
          /\ lastOp'.result # ErrBudgetExceeded
          /\ DOMAIN items' = DOMAIN items
          /\ \A i \in DOMAIN items :
                 /\ items'[i].amount = items[i].amount
                 /\ items'[i].cat = items[i].cat
                 /\ lastOp'.op = "ItemToggle" => items'[i].pos = items[i].pos
                 /\ lastOp'.op = "ItemReorder" => items'[i].done = items[i].done
          /\ Cardinality({i \in DOMAIN items : items'[i].done # items[i].done}) <= 1
          /\ plans' = plans /\ cats' = cats /\ notes' = notes]_vars

\* a Toggle completed an item of a plan whose items total the ceiling
C15_Witness ==
    /\ lastOp.op = "ItemToggle"
    /\ lastOp.result = OK
    /\ \E i \in DOMAIN items :
           /\ items[i].done
           /\ sumPlanAmount(cats[items[i].cat].plan) = plans[cats[items[i].cat].plan].ceiling

\* C16: CreateWithDetails succeeds exactly when the input has a category, no
\* blank category title, item title or note content, no item amount <= 0 and
\* item amounts that sum to at most the ceiling; every other call returns
\* InvalidInput or BudgetExceeded and leaves no row of any table behind.
C16_CreateWithDetailsContract ==
    [][lastOp'.op = "CreateWithDetails" =>
          /\ (lastOp'.result = OK) <=> (lastOp'.valid /\ lastOp'.within)
          /\ lastOp'.result # OK =>
                 /\ lastOp'.result \in {ErrInvalid, ErrBudgetExceeded}
                 /\ UNCHANGED <<plans, cats, items, notes>>]_vars

\* what a user reads: the plans of the user and the categories, items and
\* notes under them
ViewOf(u) ==
    [plans |-> {<<p, plans[p]>> : p \in {q \in DOMAIN plans : plans[q].owner = u}},
     cats  |-> {<<c, cats[c]>> : c \in {d \in DOMAIN cats : CatOwnedBy(u, d)}},
     items |-> {<<i, items[i]>> : i \in {j \in DOMAIN items : ItemOwnedBy(u, j)}},
     notes |-> {<<n, notes[n]>> : n \in {m \in DOMAIN notes : NoteOwnedBy(u, m)}}]

C18_DuplicateFidelity ==
    [][lastOp'.op = "Duplicate" /\ lastOp'.by # NoUser =>
          LET p == lastOp'.parent
              np == nPlans'
          IN
          /\ lastOp'.result = OK
          /\ np = nPlans + 1 /\ np \notin DOMAIN plans /\ np \in DOMAIN plans'
          /\ plans'[np] = plans[p]
          /\ \A q \in DOMAIN plans : q \in DOMAIN plans' /\ plans'[q] = plans[q]
          /\ \A c \in DOMAIN cats : c \in DOMAIN cats' /\ cats'[c] = cats[c]
          /\ \A i \in DOMAIN items : i \in DOMAIN items' /\ items'[i] = items[i]
          /\ \A n \in DOMAIN notes : n \in DOMAIN notes' /\ notes'[n] = notes[n]
          /\ \E f \in [CatsOfPlan(p) -> (DOMAIN cats') \ (DOMAIN cats)] :
                 /\ \A c, d \in CatsOfPlan(p) : f[c] = f[d] => c = d
                 /\ Range(f) = (DOMAIN cats') \ (DOMAIN cats)
                 /\ \A c \in CatsOfPlan(p) :
                        cats'[f[c]].plan = np /\ cats'[f[c]].pos = cats[c].pos
                 /\ \E g \in [ItemsOfPlan(p) -> (DOMAIN items') \ (DOMAIN items)] :
                        /\ \A i, j \in ItemsOfPlan(p) : g[i] = g[j] => i = j
                        /\ Range(g) = (DOMAIN items') \ (DOMAIN items)
                        /\ \A i \in ItemsOfPlan(p) :
                               items'[g[i]] = [items[i] EXCEPT !.cat = f[items[i].cat]]
          /\ \E h \in [NotesOfPlan(p) -> (DOMAIN notes') \ (DOMAIN notes)] :
                 /\ \A n, m \in NotesOfPlan(p) : h[n] = h[m] => n = m
                 /\ Range(h) = (DOMAIN notes') \ (DOMAIN notes)
                 /\ \A n \in NotesOfPlan(p) :
                        notes'[h[n]].plan = np /\ notes'[h[n]].pos = notes[n].pos]_vars

\* the mutations of a plan or of its items
PlanMutations ==
    {"PlanCreate", "PlanUpdate", "PlanDelete", "Duplicate", "CreateWithDetails",
     "ItemCreate", "ItemUpdate", "ItemDelete", "ItemToggle", "ItemUpdateColor",
     "ItemReorder"}

\* C19: when the request of a successful mutation of a plan or of its items
\* (plan create, update, delete, duplicate; item create, update, delete,
\* toggle, colour change, reorder) is answered, its handler has published a
\* budget_updated event for the caller, the plan's owner, with the plan's id.
C19_MutationPublishes ==
    lastOp.status # 0 /\ lastOp.result = OK /\ lastOp.op \in PlanMutations =>
        lastOp.by # NoUser /\ lastOp.plan # 0 /\ lastOp.notified = lastOp.plan

\* the statuses of the common mapping
StatusOfResult(res) ==
    IF res = ErrNotFound THEN 404
    ELSE IF res \in {ErrInvalid, ErrBudgetExceeded} THEN 400
    ELSE 500

StreamsOf(u) == {k \in ConnIds : conns[k].ch # 0 /\ conns[k].u = u}

\* C21: a Stream request that subscribed has called its unsubscribe function
\* exactly once when it has ended and not at all before (its channel is then
\* still registered), whichever way it ended; and when every Stream request
\* of a user has ended, the registry has no channel and no key for that user.
C21_UnsubscribeOnceAtEnd ==
    /\ \A k \in ConnIds : conns[k].ch # 0 =>
           IF conns[k].pc = "ended"
           THEN /\ unsubCalls[conns[k].ch] = 1
                /\ chState[conns[k].ch] = "closed"
           ELSE /\ unsubCalls[conns[k].ch] = 0
                /\ conns[k].ch \in Targets(subscribers, conns[k].u)
    /\ \A u \in Users :
           (\A k \in StreamsOf(u) : conns[k].pc = "ended") => u \notin DOMAIN subscribers

\* two Stream requests of one user have ended, one on a client disconnect
\* seen by the select and one on a write error, and the user's key is gone
C21_Witness ==
    /\ StreamsOf("A") = ConnIds
    /\ \A k \in ConnIds : conns[k].pc = "ended"
    /\ \E k \in ConnIds : \E i \in DOMAIN conns[k].out :
           conns[k].out[i].type = "event" /\ ~conns[k].out[i].ok
    /\ \E k \in ConnIds : \A i \in DOMAIN conns[k].out : conns[k].out[i].ok
    /\ "A" \notin DOMAIN subscribers

\* C22: a Stream request that is past its connected write has passed exactly
\* one connected record to the response, and that record is the first one:
\* every hub event of the connection comes after it, also an event that was
\* published between Subscribe and the connected write.
C22_ConnectedOnceAndFirst ==
    \A k \in ConnIds :
        LET out == conns[k].out IN
        /\ conns[k].pc \in {"new", "subscribed"} => out = <<>>
        /\ conns[k].ch # 0 /\ conns[k].pc \in {"streaming", "leaving", "ended"} =>
               /\ out # <<>>
               /\ out[1].type = "connected"
               /\ \A i \in DOMAIN out : i > 1 => out[i].type = "event"

\* an event was published while the request was between Subscribe and the
\* connected write, and was relayed behind connected
C22_Witness ==
    \E k \in ConnIds :
        /\ Len(conns[k].out) = 2
        /\ conns[k].out[1] = ConnectedRecord(TRUE)
        /\ conns[k].out[2] = EventRecord(1, TRUE)
        /\ nextEvent = 1
        /\ conns[k].pc = "streaming"

\* the positions of the rows S are exactly 0..N-1, each taken once
Dense(rows, S) ==
    /\ {rows[r].pos : r \in S} = 0..(Cardinality(S) - 1)
    /\ \A r, q \in S : rows[r].pos = rows[q].pos => r = q

\* the items of category c, the notes of plan p, among the given rows
ItemsIn(rows, c) == {i \in DOMAIN rows : rows[i].cat = c}

NotesIn(rows, p) == {n \in DOMAIN rows : rows[n].plan = p}

\* no two of the rows S have the same position
Distinct(rows, S) == \A r, q \in S : rows[r].pos = rows[q].pos => r = q

\* C23: in every reachable state the sort positions of the categories of each
\* plan are exactly 0..N-1 for its N categories, whatever plan creates,
\* creates with details, duplicates and category reorders came before.
C23_CategoriesDense ==
    \A p \in DOMAIN plans : Dense(cats, CatsOfPlan(p))

\* a plan with the six default categories, turned round by a reorder, next to
\* a plan created with two categories
C23_Witness ==
    /\ \E p \in DOMAIN plans :
           /\ Cardinality(CatsOfPlan(p)) = DefaultCategories
           /\ \E c, d \in CatsOfPlan(p) : c < d /\ cats[c].pos > cats[d].pos
    /\ \E p \in DOMAIN plans : Cardinality(CatsOfPlan(p)) = 2

\* C24 as stated: in every reachable state the sort positions of the items of
\* each category are exactly 0..N-1 for its N items, without gap or duplicate.
C24_ItemsDense ==
    \A c \in DOMAIN cats : Dense(items, ItemsOfCat(c))

\* C24 amended: in every reachable state no two items of a category have the
\* same sort position; an item Create keeps a category whose positions are
\* 0..N-1 that way, a successful item Reorder makes them 0..N-1, and only an
\* item Delete can leave a gap.
C24_ItemsDistinctDenseUntilDelete ==
    [][/\ \A c \in DOMAIN cats' : Distinct(items', ItemsOfCat(c)')
       /\ lastOp'.op = "ItemReorder" /\ lastOp'.result = OK =>
              Dense(items', ItemsIn(items', lastOp'.parent))
       /\ lastOp'.op # "ItemDelete" =>
              \A c \in DOMAIN cats \cap DOMAIN cats' :
                  Dense(items, ItemsOfCat(c)) => Dense(items', ItemsOfCat(c)')]_vars

\* the second of three items has just been deleted: a gap at position 1
C24_Witness ==
    /\ lastOp.op = "ItemDelete" /\ lastOp.result = OK
    /\ \E c \in DOMAIN cats :
           /\ Cardinality(ItemsOfCat(c)) = 2
           /\ {items[i].pos : i \in ItemsOfCat(c)} = {0, 2}

\* C26: a Delete of an item or of a note removes that row and leaves every
\* other row as it was, positions included; no call but a Reorder changes the
\* position of a row, so a gap stays until a Reorder of its parent succeeds,
\* and after that Reorder the parent's positions are 0..N-1.
C26_DeleteLeavesGaps ==
    [][/\ lastOp'.op \in {"ItemDelete", "NoteDelete"} /\ lastOp'.result = OK =>
              /\ Cardinality(DOMAIN items \ DOMAIN items') + Cardinality(DOMAIN notes \ DOMAIN notes') = 1
              /\ \A r \in DOMAIN items' : r \in DOMAIN items /\ items'[r] = items[r]
              /\ \A r \in DOMAIN notes' : r \in DOMAIN notes /\ notes'[r] = notes[r]
       /\ lastOp'.op \notin {"ItemReorder", "NoteReorder"} =>
              /\ \A r \in DOMAIN items \cap DOMAIN items' : items'[r].pos = items[r].pos
              /\ \A r \in DOMAIN notes \cap DOMAIN notes' : notes'[r].pos = notes[r].pos
       /\ lastOp'.op = "ItemReorder" /\ lastOp'.result = OK =>
              Dense(items', ItemsIn(items', lastOp'.parent))
       /\ lastOp'.op = "NoteReorder" /\ lastOp'.result = OK =>
              Dense(notes', NotesIn(notes', lastOp'.parent))]_vars

\* the first of three items has just been deleted: the others are at 1 and 2
C26_Witness ==
    /\ lastOp.op = "ItemDelete" /\ lastOp.result = OK
    /\ \E c \in DOMAIN cats :
           /\ Cardinality(ItemsOfCat(c)) = 2
           /\ {items[i].pos : i \in ItemsOfCat(c)} = {1, 2}

\* the position of a new row r among its siblings S before the insert: one
\* above the highest of them, 0 when there is none
AppendedTo(rows, S, pos) ==
    IF S = {} THEN pos = 0
    ELSE /\ \E r \in S : rows[r].pos = pos - 1
         /\ \A r \in S : rows[r].pos < pos

\* C27: a successful Create of an item (note) adds one row whose position is
\* one above the highest position among the items of its category (notes of
\* its plan) before the call, 0 when there was none, and leaves every row
\* that existed as it was.
C27_CreateAppends ==
    [][/\ lastOp'.op = "ItemCreate" /\ lastOp'.result = OK =>
              /\ \A r \in DOMAIN items : r \in DOMAIN items' /\ items'[r] = items[r]
              /\ \E i \in DOMAIN items' \ DOMAIN items :
                     /\ DOMAIN items' = DOMAIN items \cup {i}
                     /\ AppendedTo(items, ItemsOfCat(items'[i].cat), items'[i].pos)
       /\ lastOp'.op = "NoteCreate" /\ lastOp'.result = OK =>
              /\ \A r \in DOMAIN notes : r \in DOMAIN notes' /\ notes'[r] = notes[r]
              /\ \E n \in DOMAIN notes' \ DOMAIN notes :
                     /\ DOMAIN notes' = DOMAIN notes \cup {n}
                     /\ AppendedTo(notes, NotesOfPlan(notes'[n].plan), notes'[n].pos)]_vars

\* an item was created in a category whose only other item is at position 1
\* (the item at 0 was deleted): it is at position 2
C27_Witness ==
    /\ lastOp.op = "ItemCreate" /\ lastOp.result = OK
    /\ \E c \in DOMAIN cats : {items[i].pos : i \in ItemsOfCat(c)} = {1, 2}

\* C29: the step that commits a Toggle changes nothing but the completion
\* flag of its item; a Toggle without a value sets the flag to the negation
\* of the value the row has when that step is taken (never of a value read
\* before another Toggle committed), so each such Toggle flips the flag and n
\* of them leave it flipped iff n is odd; a Toggle with value v sets it to v,
\* also when it already is v.
C29_ToggleFlipsOrSets ==
    [][\A t \in Txs :
           txs[t].pc = "toggling" /\ txs'[t].pc = "done" =>
               LET i == txs[t].item IN
               /\ txs'[t].result = OK
               /\ items'[i].done = (IF txs[t].want = "nil" THEN ~items[i].done
                                    ELSE txs[t].want = "true")
               /\ items' = [items EXCEPT ![i].done = items'[i].done]]_vars

\* two Toggle calls without a value ran on item 1 at the same time, one
\* waiting for the other's row lock; both are done and the item, completed at
\* first, is completed again
C29_Witness ==
    /\ \A t \in Txs : /\ txs[t].pc = "done" /\ txs[t].op = "ItemToggle"
                      /\ txs[t].result = OK /\ txs[t].want = "nil" /\ txs[t].item = 1
    /\ txs[1].seen # txs[2].seen
    /\ nTx = 2
    /\ items[1].done

\* C25: whatever the interleaving of the note creations on a plan (those of
\* AnalyzeSpending calls included), no two notes of the plan have the same
\* sort position.
C25_NotePositionsDistinct ==
    \A p \in DOMAIN plans : Distinct(notes, NotesOfPlan(p))

\* the notes made by call c
NotesBy(c) == {n \in DOMAIN notes : noteInfo[n].by = c}

\* C30: when no call is running and an AnalyzeSpending on the plan has
\* succeeded, the plan's ai notes are the notes made by exactly one
\* AnalyzeSpending call (no earlier ai note is left, none of another call),
\* and the user's note from before is as it was.
C30_AiNotesOverwritten ==
    (/\ \A t \in Txs : txs[t].pc \in {"idle", "done"}
     /\ \E t \in Txs : txs[t].op = "AnalyzeSpending" /\ txs[t].pc = "done" /\ txs[t].result = OK)
    => /\ \E c \in 1..nTx : AiNotesOf(1) = NotesBy(c) /\ NotesBy(c) # {}
       /\ 1 \in DOMAIN notes /\ notes[1] = [plan |-> 1, pos |-> 0]
       /\ noteInfo[1].type = "user"

\* C28: a plan Create request whose ceiling is not positive or whose period
\* ends before it starts is answered InvalidInput (400) and leaves the plans
\* and the categories as they were; any other request either leaves them as
\* they were too, or adds exactly one plan of the caller with the requested
\* ceiling and exactly six categories of it, at positions 0..5.
C28_CreatePlanValidates ==
    [][lastOp'.op = "PlanCreate" =>
        LET budgetCents == lastOp'.budget
            added == (DOMAIN plans') \ (DOMAIN plans)
            addedCats == (DOMAIN cats') \ (DOMAIN cats)
            nothing == plans' = plans /\ cats' = cats
        IN
        IF budgetCents <= 0 \/ lastOp'.periodEnd < lastOp'.periodStart
        THEN lastOp'.result = ErrInvalid /\ lastOp'.status = 400 /\ nothing
        ELSE \/ nothing
             \/ /\ Cardinality(added) = 1
                /\ \A p \in DOMAIN plans : plans'[p] = plans[p]
                /\ \A c \in DOMAIN cats : cats'[c] = cats[c]
                /\ \A p \in added :
                       /\ plans'[p] = [owner |-> lastOp'.by, ceiling |-> budgetCents]
                       /\ \A c \in addedCats : cats'[c].plan = p
                       /\ Cardinality(addedCats) = DefaultCategories
                       /\ {cats'[c].pos : c \in addedCats} = 0 .. DefaultCategories - 1
    ]_vars

\* a request with a positive ceiling and a reversed period was refused while
\* an earlier request's plan stands with its six categories
C28_Witness ==
    /\ lastOp.op = "PlanCreate"
    /\ lastOp.budget > 0
    /\ lastOp.periodEnd < lastOp.periodStart
    /\ lastOp.status = 400
    /\ \E p \in DOMAIN plans :
           Cardinality({c \in DOMAIN cats : cats[c].plan = p}) = DefaultCategories

\* C31: a GeneratePlan request answered 201 has added exactly one plan, of the
\* caller, and every category, item and note it added belongs to that plan;
\* the plan is the AI plan (is_ai_generated) when the AI call, the mapping and
\* CreateWithDetails succeeded, and otherwise a plan that is not AI generated
\* and has the six default categories, no item and exactly one note.
C31_GenerateCreatesOnePlan ==
    [][lastOp'.op = "GeneratePlan" /\ lastOp'.status = 201 =>
        LET added == (DOMAIN plans') \ (DOMAIN plans)
            addedCats == (DOMAIN cats') \ (DOMAIN cats)
            addedItems == (DOMAIN items') \ (DOMAIN items)
            addedNotes == (DOMAIN notes') \ (DOMAIN notes)
        IN
        /\ Cardinality(added) = 1
        /\ \A p \in added :
               /\ plans'[p].owner = lastOp'.by
               /\ \A c \in addedCats : cats'[c].plan = p
               /\ \A i \in addedItems : items'[i].cat \in addedCats
               /\ \A n \in addedNotes : notes'[n].plan = p
               /\ IF lastOp'.result = OK
                  THEN aiGenerated'[p]
                  ELSE /\ ~aiGenerated'[p]
                       /\ {cats'[c].pos : c \in addedCats} = 0 .. DefaultCategories - 1
                       /\ Cardinality(addedCats) = DefaultCategories
                       /\ addedItems = {}
                       /\ Cardinality(addedNotes) = 1
    ]_vars

\* C32: buildCopyTitle(title, max) returns "Copy of " followed by the title
\* when that string has at most max characters and otherwise the first max
\* characters of it; for max >= 8 the result starts with "Copy of " and has
\* at most max characters, a character being a rune and not a byte.
C32_CopyTitleInRunes ==
    copyCall.returned =>
        LET whole == CopyOf(copyCall.title)
            chars == Runes(whole)
            max == copyCall.maxRunes
        IN
        /\ IF Len(chars) <= max
           THEN copyCall.result = whole
           ELSE Runes(copyCall.result) = SubSeq(chars, 1, max)
        /\ max >= 8 =>
               /\ Len(copyCall.result) >= 8
               /\ SubSeq(copyCall.result, 1, 8) = CopyOf(<<>>)
               /\ Len(Runes(copyCall.result)) <= max

\* a title of a two-byte character and a letter was cut to nine characters,
\* which are ten bytes
C32_Witness ==
    /\ copyCall.returned
    /\ copyCall.title = <<"L2", "T", "a">>
    /\ copyCall.maxRunes = 9
    /\ Len(copyCall.result) = 10

\* C33: for every plan the amounts of its completed items sum up to at most
\* its ceiling (so ceiling minus spent is never negative), after any sequence
\* of item create, update, toggle and delete, plan update and duplicate calls.
C33_SpentWithinCeiling ==
    \A p \in DOMAIN plans : CompletedSum(p) <= plans[p].ceiling

C35_LastEventCurrent ==
    (\A t \in Txs : txs[t].pc \in {"idle", "done"}) =>
        \A p \in DOMAIN lastEvent :
            /\ lastEvent[p].spent = CompletedSum(p)
            /\ lastEvent[p].remaining = plans[p].ceiling - CompletedSum(p)

\* C36: in every reachable state the registry holds, under each user, exactly
\* the open channels Subscribe registered for that user whose unsubscribe has
\* not run, and no user key maps to an empty set; a step that changes the
\* registry is a Subscribe adding its own channel under its own user or an
\* unsubscribe removing only its own channel, so a Publish never changes it.
LiveChans(u) ==
    {ch \in Chans : /\ chUser[ch] = u
                    /\ chState[ch] = "open"
                    /\ \/ ch \in returned
                       \/ \E p \in Procs : pc[p] = "sub_ret" /\ pChan[p] = ch}

RegistryStep ==
    subscribers' # subscribers =>
        \E p \in Procs :
            \/ /\ pc[p] = "sub_lock"
               /\ \A u \in Users :
                      Targets(subscribers', u) =
                          Targets(subscribers, u) \cup
                              (IF u = pUser[p] THEN {pChan[p]} ELSE {})
            \/ /\ pc[p] = "unsub_lock"
               /\ \A u \in Users :
                      Targets(subscribers', u) =
                          Targets(subscribers, u) \
                              (IF u = pUser[p] THEN {pChan[p]} ELSE {})

C36_RegistryExact ==
    /\ [](/\ \A u \in DOMAIN subscribers : subscribers[u] # {}
          /\ \A u \in Users : Targets(subscribers, u) = LiveChans(u))
    /\ [][RegistryStep]_vars

\* a Publish is ranging over the channels of a user who has no key in the
\* registry any more, after the user's only channel was unsubscribed
C36_Witness ==
    \E p \in Procs :
        /\ pc[p] \in {"pub_loop", "pub_ret"}
        /\ pUser[p] \notin DOMAIN subscribers
        /\ \E ch \in Chans : chUser[ch] = pUser[p] /\ chState[ch] = "closed"

\* the place of event e in the queue of a channel that holds it
PlaceOf(ch, e) == CHOOSE i \in DOMAIN delivered[ch] : delivered[ch][i] = e

\* channels c1 and c2 hold e1 and e2 in the same relative order
SameOrder(c1, c2, e1, e2) ==
    (PlaceOf(c1, e1) < PlaceOf(c1, e2)) <=> (PlaceOf(c2, e1) < PlaceOf(c2, e2))

\* C37 (as stated): two channels of one user that both got events e1 and e2
\* got them in the same relative order, whichever Publish calls sent them.
C37_SameOrderAlways ==
    \A c1, c2 \in Chans :
        (chUser[c1] = chUser[c2] /\ chUser[c1] # NoUser) =>
            \A e1, e2 \in Range(delivered[c1]) \cap Range(delivered[c2]) :
                SameOrder(c1, c2, e1, e2)

\* C37 (amended): two channels of one user that both got events e1 and e2 got
\* them in the same relative order when the two Publish calls did not run at
\* the same time (one returned before the other was called).
C37_SameOrderSequential ==
    \A c1, c2 \in Chans :
        (chUser[c1] = chUser[c2] /\ chUser[c1] # NoUser) =>
            \A e1, e2 \in Range(delivered[c1]) \cap Range(delivered[c2]) :
                {e1, e2} \notin overlap => SameOrder(c1, c2, e1, e2)

\* two channels of one user both hold two events that different goroutines
\* published one after the other
C37_Witness ==
    \E c1, c2 \in Chans :
        /\ c1 # c2
        /\ chUser[c1] = chUser[c2]
        /\ \E e1, e2 \in Range(delivered[c1]) \cap Range(delivered[c2]) :
               /\ e1 # e2
               /\ evProc[e1] # evProc[e2]
               /\ {e1, e2} \notin overlap

\* C38: a store-level Reorder of items, notes or categories that resolved its
\* parent and whose id list names an id twice returns InvalidInput and changes
\* no position, whatever the length of the list and the number of children.
C38_RepeatedIdRejected ==
    [][(/\ lastOp'.op \in ReorderOps
        /\ lastOp'.parent # 0
        /\ lastOp'.repeats)
       => (/\ lastOp'.result = ErrInvalid
           /\ items' = items
           /\ notes' = notes
           /\ cats' = cats)]_vars

\* an item Reorder of a category of two items whose list named both items,
\* one of them twice, was turned down
C38_Witness ==
    /\ lastOp.op = "ItemReorder"
    /\ lastOp.parent # 0
    /\ lastOp.repeats
    /\ ~lastOp.omits
    /\ ~lastOp.foreign
    /\ lastOp.result = ErrInvalid
    /\ Cardinality(ItemsOfCat(lastOp.parent)) = 2

\* C39: of the Refresh requests that present one refresh token at most one is
\* answered 200, whether they run one after the other or at the same time,
\* and the new token of a request whose Rotate failed is not in the table.
C39_RefreshAtMostOnce ==
    /\ \A r, q \in DOMAIN refreshes :
           (r # q /\ refreshes[r].status = 200 /\ refreshes[q].status = 200)
               => refreshes[r].old # refreshes[q].old
    /\ \A r \in DOMAIN refreshes :
           (refreshes[r].pc = "done" /\ refreshes[r].status # 200)
               => refreshes[r].new \notin DOMAIN tokens

\* two requests presented the same token and both passed the handler's
\* checks; one was answered 200, the Rotate of the other found the token
\* revoked and its INSERT was rolled back
C39_Witness ==
    \E r, q \in DOMAIN refreshes :
        /\ r # q
        /\ refreshes[r].old = refreshes[q].old
        /\ refreshes[r].status = 200
        /\ refreshes[q].status = 401
        /\ refreshes[q].new # 0
        /\ refreshes[q].new \notin DOMAIN tokens
        /\ tokens[refreshes[r].old].replacedBy = refreshes[r].new

\* what holds of every state of an Open call
OpenSafe ==
    OpenCalled =>
        /\ dbOpen.i <= Retries
        \* an attempt whose creation and ping both succeeded returned its pool
        /\ (dbOpen.created /\ dbOpen.pinged) <=> dbOpen.result = "pool"
        /\ dbOpen.result = "pool" =>
               /\ dbOpen.pc = "done"
               /\ dbOpen.i < Retries
               /\ dbOpen.pool = dbOpen.i + 1
               /\ dbOpen.open = {dbOpen.pool}
        \* an error comes after no attempt (bad DSN) or after Retries failed ones
        /\ dbOpen.result = "config error" => dbOpen.i = 0 /\ dbOpen.open = {}
        /\ dbOpen.result = "error" => dbOpen.i = Retries
        /\ dbOpen.result = "ctx error" => dbOpen.ctxDone /\ dbOpen.i < Retries
        \* a failed attempt's pool is closed before the wait, and none is open
        \* when the call returns without a pool
        /\ dbOpen.pc \in {"attempt", "wait"} => dbOpen.open = {}
        /\ (dbOpen.pc = "done" /\ dbOpen.result # "pool") => dbOpen.open = {}

\* a wait that ends while ctx is cancelled and the timer has not fired ends
\* with the context error
OpenWaitStep ==
    (/\ OpenAt("wait")
     /\ dbOpen.ctxDone
     /\ ~dbOpen.fired
     /\ dbOpen'.pc # "wait")
        => dbOpen'.result = "ctx error"

\* C40: database.Open terminates; it returns the pool of the first attempt
\* whose creation and ping both succeed, otherwise an error after at most 5
\* failed attempts, or the context error when ctx is cancelled during a wait
\* before the timer fires; no pool of a failed attempt stays open.
C40_OpenTerminates ==
    /\ <>OpenAt("done")
    /\ []OpenSafe
    /\ [][OpenWaitStep]_vars

\* the call returned the pool of its third attempt after one attempt whose
\* pool was created and failed the ping, ctx being cancelled by then
C40_Witness ==
    /\ OpenAt("done")
    /\ dbOpen.result = "pool"
    /\ dbOpen.i = 2
    /\ dbOpen.backoff = 4
    /\ dbOpen.ctxDone

====
